---- MODULE Spec2Model ----
(***************************************************************************)
(* Model of reyweb.rapi.rali.APIAliQwen (src/src/reyweb/rapi/rali.py) and  *)
(* of the thread-keyed request-record buffer it writes to                  *)
(* (src/src/reyweb/rapi/rdb.py).                                           *)
(*                                                                         *)
(* Python values are modelled as follows.                                  *)
(*   - an optional value (x | None) is a sequence of length at most one:   *)
(*     None is <<>> and the value x is <<x>>;                              *)
(*   - a str is a TLA+ string, len() is Len and + is \o;                   *)
(*   - a list is a sequence; the citation list is a sequence of items and  *)
(*     the record's 'web' field is None exactly when that sequence is <<>> *)
(*     (the code's `web_data or None`);                                    *)
(*   - a dict is a function from its keys;                                 *)
(*   - a raised exception is the outcome of the call that raised it.       *)
(***************************************************************************)
EXTENDS Integers, Sequences, FiniteSets, TLC

VARIABLES
    \* ---- APIAliQwen instance (rali.py __init__)
    built,              \* whether __init__ has returned an instance
    init_res,           \* outcome of the last __init__ call
    rand,               \* self.rand, in tenths (5 is 0.5)
    database,           \* self.database is not None
    system,             \* self.system
    history_max_char,   \* self.history_max_char
    history_max_time,   \* self.history_max_time (seconds)
    data,               \* self.data: index -> list of chat records
    \* ---- environment
    clock,              \* now('timestamp'), milliseconds
    requests,           \* the request bodies sent to the vendor so far
    chats,              \* the number of chat calls made so far
    chat_res,           \* outcome of the last chat / get_chat_records_history call
    call,               \* that call: its name and arguments
    \* ---- closure of one extract_response_generator call
    stage,              \* "idle" | "requested" | "extracted" | "failed"
    response_iter,      \* the lines of the response
    it_pos,             \* how many lines of response_iter were consumed
    chat_record_reply,  \* the reply record shared by both generators
    is_think_emptied,   \* the closure's flag
    gen_state,          \* mode -> "created" | "suspended" | "returned" | "raised"
    gen_res,            \* mode -> outcome of the last next() on that generator
    yielded,            \* mode -> the fragments that generator yielded, in order
    handed,             \* the generators the caller was given
    overtaken,          \* history: the think generator took its "Last" branch
                        \* after the text generator's first next()
    think_first,        \* history: the think generator had terminated when
                        \* the text generator's first next() was made
    \* ---- APIDatabaseRecord (rdb.py)
    db_data,            \* self.db_record.data: thread id -> dict
    db_rows,            \* the rows given to database.execute_insert, in order
    rec_task,           \* thread id -> the thread's position in __setitem__
                        \* or record() and the call's arguments
    rec_since,          \* history: thread id -> what the thread set since
                        \* its previous record()
    rec_calls,          \* history: number of buffer calls made
    \* ---- Server (rserver.py): the lifespan manager
    ls_before,          \* the closure's `before` after "# Parameter."
    ls_after,           \* the closure's `after` after "# Parameter."
    ls_db_warm,         \* db_warm
    ls_db,              \* whether self.db is a database
    ls_pc,              \* position of the lifespan coroutine
    ls_i,               \* number of iterations of the current for loop
    ls_log,             \* history: what was executed, in order
    ls_res,             \* outcome of the coroutine
    \* ---- APIBaidu / APIBaiduChat instance (rbaidu.py) and its vendor
    bd_character,       \* self.character
    bd_token_valid_seconds, \* self.token_valid_seconds
    bd_token_time,      \* self.token_time (None while the attribute is unset)
    bd_token,           \* self._token (None while the attribute is unset)
    bd_chat_records,    \* self.chat_records: key -> list of chat records
    bd_call_records,    \* self.call_records
    bd_fetches,         \* the number of get_token requests sent so far
    bd_requests,        \* the requests the last Baidu call sent, in order
    bd_res,             \* outcome of the last Baidu call
    bd_task             \* the to_url call in progress: its position and its polls

vars == <<built, init_res, rand, database, system, history_max_char,
          history_max_time, data, clock, requests, chats, chat_res, call,
          stage,
          response_iter, it_pos, chat_record_reply, is_think_emptied,
          gen_state, gen_res, yielded, handed, overtaken, think_first, db_data,
          db_rows, rec_task, rec_since, rec_calls,
          ls_before, ls_after, ls_db_warm, ls_db, ls_pc, ls_i, ls_log, ls_res,
          bd_character, bd_token_valid_seconds, bd_token_time, bd_token,
          bd_chat_records, bd_call_records, bd_fetches, bd_requests, bd_res,
          bd_task>>

inst_vars == <<built, init_res, rand, database, system, history_max_char,
               history_max_time>>

baidu_vars == <<bd_character, bd_token_valid_seconds, bd_token_time, bd_token,
                bd_chat_records, bd_call_records, bd_fetches, bd_requests,
                bd_res, bd_task>>

rec_vars == <<rec_task, rec_since, rec_calls>>

server_vars == <<ls_before, ls_after, ls_db_warm, ls_db, ls_pc, ls_i, ls_log,
                 ls_res>>

gen_vars == <<stage, response_iter, it_pos, chat_record_reply,
              is_think_emptied, gen_state, gen_res, yielded, handed, overtaken,
              think_first>>

-----------------------------------------------------------------------------
(* Bounds *)

\* longest response (lines) a stream specification draws
MaxLines == 3

\* number of threads that may call into one APIAliQwen object
NumThreads == 2

\* calls of the record buffer's methods in one behaviour
MaxBufferCalls == 4

\* longest `before` / `after` a lifespan specification draws
MaxTasks == 2

Threads == 1..NumThreads

-----------------------------------------------------------------------------
(* Python values *)

None == <<>>

Some(x) == <<x>>

\* `x or ''` for x : str | None
OrEmpty(o) == IF o = None THEN Some("") ELSE o

\* `x or None` for x : str | None
OrNone(o) == IF o = Some("") THEN None ELSE o

\* bool(x) for x : str | None
Truthy(o) == o # None /\ o # Some("")

EmptyDict == [k \in {} |-> None]

\* d[key] = value
DictSet(d, key, value) == (key :> value) @@ d

Yield(v) == [kind |-> "yield", value |-> v]

Raise(e) == [kind |-> "raise", error |-> e]

NoCall == [kind |-> "none"]

\* s1 + s2 + ... for a sequence of strings
RECURSIVE Join(_)
Join(ss) == IF ss = <<>> THEN "" ELSE Head(ss) \o Join(Tail(ss))

-----------------------------------------------------------------------------
(* Vendor responses.  A decoded response JSON is a record                  *)
(*   output    : whether the key 'output' is present                       *)
(*   content   : output.choices[0].message.content (str | null)            *)
(*   reasoning : message.reasoning_content (absent/null is None)           *)
(*   usage     : the 'usage' object (absent is None)                       *)
(*   search    : output.search_info.search_results (absent is <<>>)        *)
(* and a line of a stream is such a record with `kind` "data", or a line   *)
(* that does not start with 'data:{' / 'data: {' (`kind` "other").         *)

Usage(i, o, r) ==
    [total_tokens |-> i + o, input_tokens |-> i, output_tokens |-> o,
     reasoning_tokens |-> r]

WebItem(site, icon, n) ==
    [site_name |-> site, icon |-> icon, index |-> n, url |-> "u", title |-> "t"]

Json(out, content, reasoning, usage, search) ==
    [kind |-> "data", output |-> out, content |-> content,
     reasoning |-> reasoning, usage |-> usage, search |-> search]

OtherLine == [Json(FALSE, None, None, None, <<>>) EXCEPT !.kind = "other"]

Search1 == <<WebItem(Some(""), None, 1)>>

Search2 == <<WebItem(Some("s"), Some(""), 1), WebItem(None, Some("i"), 2)>>

\* the lines a modelled stream is made of
StreamLines ==
    { OtherLine,
      Json(TRUE, Some("a"), None, None, <<>>),
      Json(TRUE, Some("bc"), Some(""), Some(Usage(1, 2, None)), Search1),
      Json(TRUE, Some(""), Some("t"), None, <<>>),
      Json(TRUE, Some(""), Some("uv"), Some(Usage(1, 1, Some(1))), Search2),
      Json(TRUE, Some("a"), Some("t"), Some(Usage(2, 1, Some(1))), <<>>),
      Json(TRUE, None, None, Some(Usage(1, 0, None)), Search1),
      Json(FALSE, None, None, Some(Usage(1, 0, None)), <<>>) }

RECURSIVE SeqsUpTo(_, _)
SeqsUpTo(S, n) ==
    IF n = 0 THEN {<<>>}
    ELSE LET shorter == SeqsUpTo(S, n - 1)
         IN  shorter \cup {Append(s, x) : s \in shorter, x \in S}

Streams == SeqsUpTo(StreamLines, MaxLines)

\* response_line.startswith(('data:{', 'data: {'))
IsDataLine(line) == line.kind = "data"

-----------------------------------------------------------------------------
(* Extraction from one response JSON *)

extract_response_text(response_json) ==
    IF response_json.output THEN response_json.content ELSE None

extract_response_token(response_json) ==
    IF response_json.usage # None
    THEN LET token_data == response_json.usage[1]
         IN  Some([total |-> token_data.total_tokens,
                   input |-> token_data.input_tokens,
                   output |-> token_data.output_tokens,
                   output_think |-> token_data.reasoning_tokens])
    ELSE None

\* response_json['output'] raises KeyError when the key is absent
RaisesKeyError(response_json) == ~response_json.output

WebItemOut(item) ==
    [site |-> OrNone(item.site_name), icon |-> OrNone(item.icon),
     index |-> item.index, url |-> item.url, title |-> item.title]

\* defined when ~RaisesKeyError(response_json)
extract_response_web(response_json) ==
    [i \in 1..Len(response_json.search) |-> WebItemOut(response_json.search[i])]

\* defined when ~RaisesKeyError(response_json)
extract_response_think(response_json) == OrNone(response_json.reasoning)

\* mutant of StrLen: an absent text counts as one of no characters
StrLenZeroForNone(o) == IF o = None THEN Some(0) ELSE Some(Len(o[1]))

\* `len(response_text)` unless response_text is None
StrLen(o) == IF o = None THEN None ELSE Some(Len(o[1]))

\* defined when ~RaisesKeyError(response_json)
extract_response_record(response_json, now) ==
    LET response_text == extract_response_text(response_json)
    IN  [time |-> now,
         role |-> "assistant",
         content |-> response_text,
         len |-> StrLen(response_text),
         token |-> extract_response_token(response_json),
         web |-> extract_response_web(response_json),
         think |-> extract_response_think(response_json)]

-----------------------------------------------------------------------------
(* APIDatabaseRecord: the buffer of the request record, keyed by thread *)

\* mutant of threading_get_ident: every thread is given the same identifier
SharedIdent(t) == 1

\* threading.get_ident() in thread t
threading_get_ident(t) == t

\* record = self.data.setdefault(thread_id, {}): the data afterwards
SetDefaultThread(dbd, t) ==
    LET thread_id == threading_get_ident(t)
    IN  IF thread_id \in DOMAIN dbd THEN dbd ELSE (thread_id :> EmptyDict) @@ dbd

\* record[key] = value, record being the entry of thread t
UpdateRecord(dbd, t, key, value) ==
    LET thread_id == threading_get_ident(t)
    IN  [dbd EXCEPT ![thread_id] = DictSet(@, key, value)]

\* the record that thread t hands to execute_insert
RecordOfThread(dbd, t) == dbd[threading_get_ident(t)]

\* del self.data[thread_id]
DeleteThread(dbd, t) ==
    [k \in DOMAIN dbd \ {threading_get_ident(t)} |-> dbd[k]]

\* a thread outside __setitem__ and record()
Idle == [pc |-> "idle", key |-> "", value |-> ""]

\* APIDatabaseRecord.__setitem__ called by thread t
db_record_set(dbd, t, key, value) ==
    IF ~database THEN dbd
    ELSE UpdateRecord(SetDefaultThread(dbd, t), t, key, value)

\* APIDatabaseRecord.record called by thread t: <<data, rows>> afterwards
db_record_record(dbd, rows, t) ==
    IF ~database THEN <<dbd, rows>>
    ELSE LET d1 == SetDefaultThread(dbd, t)
         IN  <<DeleteThread(d1, t), Append(rows, RecordOfThread(d1, t))>>

\* The assignments of insert_db that precede the first read of record['token']
insert_db_head(dbd, t, record) ==
    LET d1 == db_record_set(dbd, t, "reply", record.content)
        d2 == db_record_set(d1, t, "think", record.think)
    IN  db_record_set(d2, t, "web", record.web)

\* APIAliQwen.insert_db called by thread t.  record['token']['total'] raises
\* TypeError when the token is None, whether or not a database is set.
insert_db(dbd, rows, t, record) ==
    LET d3 == insert_db_head(dbd, t, record)
    IN  IF record.token = None
        THEN [db_data |-> d3, db_rows |-> rows, err |-> "TypeError"]
        ELSE LET token == record.token[1]
                 d4 == db_record_set(d3, t, "token_total", token.total)
                 d5 == db_record_set(d4, t, "token_input", token.input)
                 d6 == db_record_set(d5, t, "token_output", token.output)
                 d7 == db_record_set(d6, t, "token_output_think", token.output_think)
                 done == db_record_record(d7, rows, t)
             IN  [db_data |-> done[1], db_rows |-> done[2], err |-> ""]

-----------------------------------------------------------------------------
(* extract_response_generator: the part that runs at the call *)

RECURSIVE NextDataLine(_, _)
\* mutant of NextDataLine: the next line is taken whatever its prefix
NextLine(lines, pos) ==
    IF pos >= Len(lines) THEN 0 ELSE pos + 1

\* the index of the first data line after position pos, 0 if there is none
\* (the for loops over response_iter)
NextDataLine(lines, pos) ==
    IF pos >= Len(lines) THEN 0
    ELSE IF IsDataLine(lines[pos + 1]) THEN pos + 1
    ELSE NextDataLine(lines, pos + 1)

\* The closure after extract_response_generator(response_iter) returned, and
\* "failed" when it raised (no data line: AssertionError; no 'output': KeyError).
ExtractGenerator(lines, now) ==
    LET first == NextDataLine(lines, 0)
    IN  IF first = 0
        THEN [stage |-> "failed", err |-> "AssertionError", it_pos |-> Len(lines),
              reply |-> None, emptied |-> FALSE]
        ELSE IF RaisesKeyError(lines[first])
        THEN [stage |-> "failed", err |-> "KeyError", it_pos |-> first,
              reply |-> None, emptied |-> FALSE]
        ELSE LET reply == extract_response_record(lines[first], now)
             IN  [stage |-> "extracted", err |-> "", it_pos |-> first,
                  reply |-> Some(reply), emptied |-> ~Truthy(reply.think)]

-----------------------------------------------------------------------------
(* _generator(mode): one next() runs the body up to its next yield, its     *)
(* return or the exception it raises.  The state a run works on is          *)
(*   [pos, reply, emptied, db_data, db_rows].                               *)

Modes == {"text", "think"}

GenResult(s, out, state) == [s |-> s, out |-> out, state |-> state]

\* ## Token.  (last wins)
UpdateToken(reply, response_json) ==
    [reply EXCEPT !.token = extract_response_token(response_json)]

\* mutant of UpdateWeb: the last line's citations win
UpdateWebLastWins(reply, response_json) ==
    [reply EXCEPT !.web = extract_response_web(response_json)]

\* ## Web.  (only while the record has none); defined when no KeyError
UpdateWeb(reply, response_json) ==
    IF reply.web = None
    THEN [reply EXCEPT !.web = extract_response_web(response_json)]
    ELSE reply

\* mutant of AddContent: the fragment is put in front
AddContentInFront(reply, response_text) ==
    [reply EXCEPT !.content = Some(response_text \o @[1])]

\* chat_record_reply['content'] += response_text
AddContent(reply, response_text) ==
    [reply EXCEPT !.content = Some(@[1] \o response_text)]

\* chat_record_reply['len'] += len(response_text)
AddLen(reply, response_text) ==
    [reply EXCEPT !.len = Some(@[1] + Len(response_text))]

\* chat_record_reply['think'] += response_think
AddThink(reply, response_think) ==
    [reply EXCEPT !.think = Some(@[1] \o response_think)]

\* mutant of CaptureContent: the line's reply text is not stored
KeepContent(reply, response_text) == reply

\* ### Last.  chat_record_reply['content'] = response_text
CaptureContent(reply, response_text) ==
    [reply EXCEPT !.content = response_text]

\* ## Text.
TextStep(s, response_json) ==
    LET response_text == extract_response_text(response_json)
    IN  IF response_text = None THEN GenResult(s, NoCall, "continue")
        ELSE IF s.reply.content = None
        THEN \* None += str
             GenResult(s, Raise("TypeError"), "raised")
        ELSE
        LET s1 == [s EXCEPT !.reply = AddContent(@, response_text[1])]
        IN  IF s1.reply.len = None
            THEN \* None += int
                 GenResult(s1, Raise("TypeError"), "raised")
            ELSE GenResult([s1 EXCEPT !.reply = AddLen(@, response_text[1])],
                           Yield(response_text[1]), "suspended")

\* ## Think.
ThinkStep(s, response_json) ==
    IF RaisesKeyError(response_json)
    THEN GenResult(s, Raise("KeyError"), "raised")
    ELSE
    LET response_think == extract_response_think(response_json)
    IN  IF response_think = None
        THEN \* ### Last.
             LET response_text == extract_response_text(response_json)
                 s1 == [s EXCEPT !.emptied = TRUE,
                                 !.reply = CaptureContent(@, response_text)]
             IN  IF response_text = None
                 THEN GenResult(s1, Raise("StopIteration"), "returned")
                 ELSE IF s1.reply.len = None
                 THEN GenResult(s1, Raise("TypeError"), "raised")
                 ELSE GenResult([s1 EXCEPT !.reply = AddLen(@, response_text[1])],
                                Raise("StopIteration"), "returned")
        ELSE GenResult([s EXCEPT !.reply = AddThink(@, response_think[1])],
                       Yield(response_think[1]), "suspended")

\* the `for response_line in response_iter` loop, entered or resumed
RECURSIVE GenLoop(_, _, _)
GenLoop(mode, t, s) ==
    IF s.pos >= Len(response_iter)
    THEN \* the loop is exhausted: the for's else clause
         LET ins == insert_db(s.db_data, s.db_rows, t, s.reply)
             s1 == [s EXCEPT !.db_data = ins.db_data, !.db_rows = ins.db_rows]
         IN  IF ins.err = ""
             THEN GenResult(s1, Raise("StopIteration"), "returned")
             ELSE GenResult(s1, Raise(ins.err), "raised")
    ELSE
    LET response_json == response_iter[s.pos + 1]
        s1 == [s EXCEPT !.pos = s.pos + 1]
    IN  IF ~IsDataLine(response_json) THEN GenLoop(mode, t, s1)
        ELSE
        LET s2 == [s1 EXCEPT !.reply = UpdateToken(@, response_json)]
        IN  IF s2.reply.web = None /\ RaisesKeyError(response_json)
            THEN GenResult(s2, Raise("KeyError"), "raised")
            ELSE
            LET s3 == [s2 EXCEPT !.reply = UpdateWeb(@, response_json)]
                r == IF mode = "text" THEN TextStep(s3, response_json)
                     ELSE ThinkStep(s3, response_json)
            IN  IF r.state = "continue" THEN GenLoop(mode, t, r.s) ELSE r

\* mutant of GenStart: the "# Check." is missing
GenStartUnchecked(mode, s) ==
    LET s1 == [s EXCEPT !.reply.content = OrEmpty(@), !.reply.think = OrEmpty(@)]
    IN  IF mode = "text"
        THEN GenResult(s1, Yield(s1.reply.content[1]), "suspended")
        ELSE GenResult(s1, Yield(s1.reply.think[1]), "suspended")

\* the body from its start to the first yield
GenStart(mode, s) ==
    LET s1 == [s EXCEPT !.reply.content = OrEmpty(@), !.reply.think = OrEmpty(@)]
    IN  IF ~s1.emptied /\ mode = "text"
        THEN GenResult(s1, Raise("AssertionError"), "raised")
        ELSE IF mode = "text"
        THEN GenResult(s1, Yield(s1.reply.content[1]), "suspended")
        ELSE GenResult(s1, Yield(s1.reply.think[1]), "suspended")

\* next(generator) by thread t, the generator being in state `state`
GenNext(mode, t, state, s) ==
    CASE state = "created" -> GenStart(mode, s)
      [] state = "suspended" -> GenLoop(mode, t, s)
      [] OTHER -> GenResult(s, Raise("StopIteration"), state)

\* whether the generator has terminated, by return or by an exception
Closed(state) == state \in {"returned", "raised"}

-----------------------------------------------------------------------------
(* State of the closure *)

NoClosure ==
    /\ stage = "idle"
    /\ response_iter = <<>>
    /\ it_pos = 0
    /\ chat_record_reply = None
    /\ is_think_emptied = FALSE
    /\ gen_state = [m \in Modes |-> "returned"]
    /\ gen_res = [m \in Modes |-> NoCall]
    /\ yielded = [m \in Modes |-> <<>>]
    /\ handed = {}
    /\ overtaken = FALSE
    /\ think_first = FALSE

NoRecords ==
    /\ db_data = EmptyDict
    /\ db_rows = <<>>

\* no thread is inside a call of the record buffer
NoThreads ==
    /\ rec_task = [t \in Threads |-> Idle]
    /\ rec_since = [t \in Threads |-> EmptyDict]
    /\ rec_calls = 0

\* no lifespan manager
NoServer ==
    /\ ls_before = <<>>
    /\ ls_after = <<>>
    /\ ls_db_warm = FALSE
    /\ ls_db = FALSE
    /\ ls_pc = "none"
    /\ ls_i = 0
    /\ ls_log = <<>>
    /\ ls_res = NoCall

\* no to_url call was made
NoTask == [pc |-> "idle", kind |-> "", start |-> 0, polls |-> <<>>]

\* no APIBaidu object is in use
NoBaidu ==
    /\ bd_character = None
    /\ bd_token_valid_seconds = 0
    /\ bd_token_time = None
    /\ bd_token = None
    /\ bd_chat_records = EmptyDict
    /\ bd_call_records = <<>>
    /\ bd_fetches = 0
    /\ bd_requests = <<>>
    /\ bd_res = NoCall
    /\ bd_task = NoTask

\* chat_record_reply, generator_text, generator_think =
\*     self.extract_response_generator(response_iter)
ExtractResponseGenerator ==
    /\ stage = "requested"
    /\ LET r == ExtractGenerator(response_iter, clock)
       IN  /\ stage' = r.stage
           /\ it_pos' = r.it_pos
           /\ chat_record_reply' = r.reply
           /\ is_think_emptied' = r.emptied
           /\ gen_state' = [m \in Modes |->
                               IF r.stage = "extracted" THEN "created" ELSE "returned"]
           /\ handed' = IF r.stage = "extracted" THEN Modes ELSE {}
           /\ chat_res' = IF r.err = "" THEN NoCall ELSE Raise(r.err)
    /\ UNCHANGED <<response_iter, gen_res, yielded, overtaken, think_first, db_data,
                   db_rows, data,
                   clock, requests, chats, call, inst_vars, baidu_vars, rec_vars, server_vars>>

\* Whether a run of the think generator that moved the iterator from `before`
\* to `after` ended in its "### Last." branch: the last line it consumed is a
\* data line with an 'output' and no thinking text.
TookLastBranch(before, after) ==
    /\ after > before
    /\ IsDataLine(response_iter[after])
    /\ ~RaisesKeyError(response_iter[after])
    /\ extract_response_think(response_iter[after]) = None

\* next(generator_text) or next(generator_think), called by thread t
Pull(mode, t) ==
    /\ stage = "extracted"
    /\ mode \in handed
    /\ LET r == GenNext(mode, t, gen_state[mode],
                        [pos |-> it_pos, reply |-> chat_record_reply[1],
                         emptied |-> is_think_emptied,
                         db_data |-> db_data, db_rows |-> db_rows])
       IN  /\ it_pos' = r.s.pos
           /\ chat_record_reply' = Some(r.s.reply)
           /\ is_think_emptied' = r.s.emptied
           /\ db_data' = r.s.db_data
           /\ db_rows' = r.s.db_rows
           /\ gen_state' = [gen_state EXCEPT ![mode] = r.state]
           /\ gen_res' = [gen_res EXCEPT ![mode] = r.out]
           /\ yielded' = [yielded EXCEPT ![mode] =
                             IF r.out.kind = "yield" THEN Append(@, r.out.value) ELSE @]
           /\ overtaken' = (overtaken \/ (/\ mode = "think"
                                           /\ gen_state["text"] # "created"
                                           /\ TookLastBranch(it_pos, r.s.pos)))
           /\ think_first' = IF mode = "text" /\ gen_state["text"] = "created"
                              THEN Closed(gen_state["think"])
                              ELSE think_first
    /\ UNCHANGED <<stage, response_iter, handed, data, clock, requests, chats,
                   chat_res, call, inst_vars, baidu_vars, rec_vars, server_vars>>

NextText == \E t \in Threads : Pull("text", t)

NextThink == \E t \in Threads : Pull("think", t)

-----------------------------------------------------------------------------
(* SpecStream: extract_response_generator on every stream of at most       *)
(* MaxLines lines, and every order of next() calls on its two generators.  *)

InitStream ==
    /\ built = TRUE
    /\ init_res = NoCall
    /\ rand = 5
    /\ database \in BOOLEAN
    /\ system = None
    /\ history_max_char = None
    /\ history_max_time = None
    /\ data = EmptyDict
    /\ clock = 0
    /\ requests = <<>>
    /\ chats = 0
    /\ chat_res = NoCall
    /\ call = [op |-> "extract_response_generator"]
    /\ stage = "requested"
    /\ response_iter \in Streams
    /\ it_pos = 0
    /\ chat_record_reply = None
    /\ is_think_emptied = FALSE
    /\ gen_state = [m \in Modes |-> "returned"]
    /\ gen_res = [m \in Modes |-> NoCall]
    /\ yielded = [m \in Modes |-> <<>>]
    /\ handed = {}
    /\ overtaken = FALSE
    /\ think_first = FALSE
    /\ NoRecords
    /\ NoThreads
    /\ NoServer
    /\ NoBaidu

NextStream ==
    \/ ExtractResponseGenerator
    \/ NextText
    \/ NextThink

SpecStream == InitStream /\ [][NextStream]_vars

-----------------------------------------------------------------------------
(* Chat history: self.data[index] is a list of record objects.  An entry of *)
(* the list is a chat record, or [ref |-> "reply"] when it is the very      *)
(* object chat_record_reply that the generators of the current closure      *)
(* still write to.                                                          *)

ReplyRef == [ref |-> "reply"]

\* the record an entry of a history list is
Deref(entry) ==
    IF "ref" \in DOMAIN entry THEN chat_record_reply[1] ELSE entry

\* self.data.setdefault(index, [])
SetDefault(d, index) ==
    IF index \in DOMAIN d THEN d ELSE DictSet(d, index, <<>>)

\* history_max_time_us = history_max_time * 1000
SecondMs == 1000

\* mutant of TooOld: the limit is not converted from seconds
TooOldUnscaled(chat_record, max_time, now_timestamp) ==
    /\ max_time # None
    /\ now_timestamp - chat_record.time > max_time[1]

\* history_max_time is not None
\* and now_timestamp - chat_record['time'] > history_max_time_us
TooOld(chat_record, max_time, now_timestamp) ==
    /\ max_time # None
    /\ now_timestamp - chat_record.time > max_time[1] * SecondMs

\* The loop of get_chat_records_history over chat_records_history[::-1],
\* from position `index` (0 is the newest record) with `char_len` summed so
\* far: the position it breaks at (beyond_index is its negation), or
\* Len(records) when no bound triggers (beyond_index stays None), or -1 when
\* char_len + chat_record['len'] raises TypeError (the len is None).
RECURSIVE BeyondWalk(_, _, _, _, _, _)
BeyondWalk(records, index, char_len, max_char, max_time, now_timestamp) ==
    IF index >= Len(records) THEN Len(records)
    ELSE
    LET chat_record == Deref(records[Len(records) - index])
    IN  IF max_char # None /\ chat_record.len = None THEN -1
        ELSE
        LET char_len1 == IF max_char # None THEN char_len + chat_record.len[1]
                         ELSE char_len
        IN  IF \/ (max_char # None /\ char_len1 > max_char[1])
               \/ TooOld(chat_record, max_time, now_timestamp)
            THEN index
            ELSE BeyondWalk(records, index + 1, char_len1, max_char, max_time,
                            now_timestamp)

\* mutant of OrDefault: the instance's limit is not used
OrDefaultIgnored(param, default) == param

\* `x if x is not None else self.x`
OrDefault(param, default) == IF param = None THEN default ELSE param

\* mutant of Newest: the oldest n records are kept
Oldest(records, n) == SubSeq(records, 1, n)

\* the newest n records of a list: records[-n:] for n > 0, [] for n = 0
Newest(records, n) == SubSeq(records, Len(records) - n + 1, Len(records))

\* get_chat_records_history(index, max_char, max_time, delete) at time now:
\* the data afterwards, the returned list and the exception raised ("" if none)
get_chat_records_history(d, index, max_char, max_time, delete, now_timestamp) ==
    LET d1 == SetDefault(d, index)
        chat_records_history == d1[index]
        keep == BeyondWalk(chat_records_history, 0, 0,
                           OrDefault(max_char, history_max_char),
                           OrDefault(max_time, history_max_time), now_timestamp)
    IN  IF keep = -1
        THEN [data |-> d1, records |-> <<>>, err |-> "TypeError"]
        ELSE [data |-> IF delete
                       THEN [d1 EXCEPT ![index] = Newest(chat_records_history, keep)]
                       ELSE d1,
              records |-> Newest(chat_records_history, keep),
              err |-> ""]

Return(v) == [kind |-> "return", value |-> v]

Indexes == {"s1", "s2"}

\* self.get_chat_records_history(index, history_max_char, history_max_time, delete)
GetChatRecordsHistory(index, max_char, max_time, delete) ==
    /\ built
    /\ LET r == get_chat_records_history(data, index, max_char, max_time, delete,
                                         clock)
       IN  /\ data' = r.data
           /\ chat_res' = IF r.err = "" THEN Return([i \in 1..Len(r.records) |->
                                                         Deref(r.records[i])])
                          ELSE Raise(r.err)
    /\ call' = [op |-> "get_chat_records_history", index |-> index,
                history_max_char |-> max_char, history_max_time |-> max_time,
                delete |-> delete, now |-> clock,
                before |-> IF index \in DOMAIN data THEN data[index] ELSE <<>>]
    /\ UNCHANGED <<clock, requests, chats, db_data, db_rows, inst_vars, gen_vars,
                   baidu_vars, rec_vars, server_vars>>

\* time passes
Tick(ms) ==
    /\ clock' = clock + ms
    /\ UNCHANGED <<data, requests, chats, chat_res, call, db_data, db_rows, inst_vars,
                   gen_vars, baidu_vars, rec_vars, server_vars>>

-----------------------------------------------------------------------------
(* SpecHistory: get_chat_records_history on every sorted history of at most *)
(* MaxHistory records, from 20 s to MaxClockS s after the oldest timestamp. *)

\* longest history SpecHistory starts from
MaxHistory == 3

\* last second SpecHistory's clock reaches
MaxClockS == 21

\* a record as append_chat_records_history builds it
HistoryRecord(time, content) ==
    [time |-> time, role |-> "user", content |-> Some(content),
     len |-> Some(Len(content)), token |-> None, web |-> None, think |-> None]

HistoryTimes == {0, 10 * SecondMs, 20 * SecondMs}

HistoryContents == {"x", "yz"}

\* chat_records_history.sort(key=sort_key)
Sorted(records) ==
    \A i \in 1..(Len(records) - 1) :
        Deref(records[i]).time <= Deref(records[i + 1]).time

Histories ==
    {h \in SeqsUpTo({HistoryRecord(time, content) :
                         time \in HistoryTimes, content \in HistoryContents},
                    MaxHistory) : Sorted(h)}

MaxChars == {None, Some(2)}

MaxTimes == {None, Some(15)}

\* (history_max_char, history_max_time) of the instance
InstanceLimits == {<<None, None>>, <<Some(2), Some(15)>>}

InitHistory ==
    /\ built = TRUE
    /\ init_res = NoCall
    /\ rand = 5
    /\ database = FALSE
    /\ system = None
    /\ \E limits \in InstanceLimits :
           history_max_char = limits[1] /\ history_max_time = limits[2]
    /\ \E h \in Histories : data = DictSet(EmptyDict, "s1", h)
    /\ clock = 20 * SecondMs
    /\ requests = <<>>
    /\ chats = 0
    /\ chat_res = NoCall
    /\ call = [op |-> "none"]
    /\ NoClosure
    /\ NoRecords
    /\ NoThreads
    /\ NoServer
    /\ NoBaidu

TickHistory ==
    /\ clock + SecondMs <= MaxClockS * SecondMs
    /\ Tick(SecondMs)

GetHistory ==
    \E index \in Indexes, max_char \in MaxChars, max_time \in MaxTimes,
       delete \in BOOLEAN :
        GetChatRecordsHistory(index, max_char, max_time, delete)

NextHistory ==
    \/ GetHistory
    \/ TickHistory

SpecHistory == InitHistory /\ [][NextHistory]_vars


-----------------------------------------------------------------------------
(* APIAliQwen.__init__.  rand is a float in the code; the model counts it in *)
(* tenths, so that RandOne stands for 1.0.                                   *)

\* the upper end of `0 <= rand <= 1`, in tenths
RandOne == 10

\* how far outside of the range the modelled values of rand reach, in tenths
RandSlack == 2

RandValues == (0 - RandSlack)..(RandOne + RandSlack)

\* mutant of RandAccepted: the endpoints are rejected
RandAcceptedOpen(r) == 0 < r /\ r < RandOne

\* 0 <= rand <= 1
RandAccepted(r) == 0 <= r /\ r <= RandOne

Systems == {None, Some("S")}

\* APIAliQwen(key, database, system, rand, history_max_char, history_max_time):
\* the object replaces the one the model followed so far, unless __init__
\* raises.
Construct(db, sys, r, max_char, max_time) ==
    /\ call' = [op |-> "__init__", rand |-> r]
    /\ IF ~RandAccepted(r)
       THEN /\ init_res' = Raise("ValueError")
            /\ UNCHANGED <<built, rand, database, system, history_max_char,
                           history_max_time, data, db_data>>
       ELSE /\ init_res' = Return("self")
            /\ built' = TRUE
            /\ database' = db
            /\ system' = sys
            /\ rand' = r
            /\ history_max_char' = max_char
            /\ history_max_time' = max_time
            /\ data' = EmptyDict
            /\ db_data' = EmptyDict
    /\ UNCHANGED <<clock, requests, chats, chat_res, db_rows, gen_vars, baidu_vars, rec_vars, server_vars>>

-----------------------------------------------------------------------------
(* SpecInit: constructions with every modelled value of rand *)

InitInit ==
    /\ built = FALSE
    /\ init_res = NoCall
    /\ rand = 0
    /\ database = FALSE
    /\ system = None
    /\ history_max_char = None
    /\ history_max_time = None
    /\ data = EmptyDict
    /\ clock = 0
    /\ requests = <<>>
    /\ chats = 0
    /\ chat_res = NoCall
    /\ call = [op |-> "none"]
    /\ NoClosure
    /\ NoRecords
    /\ NoThreads
    /\ NoServer
    /\ NoBaidu

NextInit ==
    \E db \in BOOLEAN, sys \in Systems, r \in RandValues,
       limits \in InstanceLimits :
        Construct(db, sys, r, limits[1], limits[2])

SpecInit == InitInit /\ [][NextInit]_vars

-----------------------------------------------------------------------------
(* APIAliQwen.request and APIAliQwen.chat.  What the vendor answers to a    *)
(* request is an input of the call: a record with the HTTP `status`         *)
(* ("ok" or "error"), the `content_type`, whether the JSON body has a       *)
(* 'code' key, the decoded `body`, and the `lines` of a streamed answer.    *)

JsonResponse(body) ==
    [status |-> "ok", content_type |-> "application/json", code |-> FALSE,
     body |-> body, lines |-> <<>>]

StreamResponse(lines) ==
    [status |-> "ok", content_type |-> "text/event-stream", code |-> FALSE,
     body |-> OtherLine, lines |-> lines]

\* self.model
model == "qwen-turbo-latest"

\* mutant of StartsWith: the whole string is compared
StartsWithExactly(s, prefix) == s = prefix

\* s.startswith(prefix)
StartsWith(s, prefix) ==
    Len(s) >= Len(prefix) /\ SubSeq(s, 1, Len(prefix)) = prefix

\* throw(AssertionError, response_json)
ThrowJson(e, response_json) ==
    [kind |-> "raise", error |-> e, response_json |-> response_json]

\* throw(AssertionError, content_type)
ThrowType(e, content_type) ==
    [kind |-> "raise", error |-> e, content_type |-> content_type]

\* request(json, stream) when the vendor answers `response`: the body sent
\* and what the call returns or raises.  temperature and presence_penalty
\* are in hundredths (rand is in tenths).  The payload of a JSON answer is
\* its `body` together with its `code` flag.
request(json, stream, response) ==
    LET json_params_temperature ==
            IF rand * 2 = 2 * RandOne THEN 199 ELSE rand * 20
        sent == [model |-> model,
                 temperature |-> json_params_temperature,
                 presence_penalty |-> rand * 40 - 200,
                 sse |-> stream,
                 incremental_output |-> stream] @@ json
        response_json == [code |-> response.code, body |-> response.body]
    IN  [sent |-> sent,
         out |-> IF response.status # "ok" THEN Raise("HTTPError")
                 ELSE IF stream THEN Return(response.lines)
                 ELSE IF StartsWith(response.content_type, "application/json")
                 THEN IF response.code
                      THEN ThrowJson("AssertionError", response_json)
                      ELSE Return(response.body)
                 ELSE ThrowType("AssertionError", response.content_type)]

\* the records chat builds for the system description and for the user's text
ChatRecord(time, role, content) ==
    [time |-> time, role |-> role, content |-> Some(content),
     len |-> Some(Len(content)), token |-> None, web |-> None, think |-> None]

\* [{'role': message['role'], 'content': message['content']} for message in messages]
Messages(records) ==
    [i \in 1..Len(records) |->
        [role |-> Deref(records[i]).role, content |-> Deref(records[i]).content]]

\* the system description chat uses
JoinSystem(sys) ==
    IF sys # None /\ system # None THEN Some(system[1] \o sys[1])
    ELSE IF sys = None THEN system
    ELSE sys

\* The histories once the generators of the current closure are dropped for
\* those of a new chat: the record they wrote to stays as it is.
Freeze(d) ==
    [k \in DOMAIN d |-> [i \in 1..Len(d[k]) |-> Deref(d[k][i])]]

\* mutant of AppendExchange: the user's record is not appended
AppendExchangeReplyOnly(d, index, chat_record_now, reply) ==
    IF index = None THEN d
    ELSE [d EXCEPT ![index[1]] = @ \o <<reply>>]

\* chat_records_history.append(chat_record_now)
\* chat_records_history.append(chat_record_reply)
AppendExchange(d, index, chat_record_now, reply) ==
    IF index = None THEN d
    ELSE [d EXCEPT ![index[1]] = @ \o <<chat_record_now, reply>>]

\* mutant of ThinkNeedsStream: the check is missing
ThinkNeedsStreamUnchecked(think, stream) == FALSE

\* `if think and not stream:`
ThinkNeedsStream(think, stream) == think /\ ~stream

\* chat raises e before it has changed anything
ChatRejects(e) ==
    /\ chat_res' = Raise(e)
    /\ UNCHANGED <<data, requests, db_data, db_rows, gen_vars>>

\* chat's stream branch after the request returned the line iterator `lines`
ChatStream(t, index, think, d, dbd, chat_record_now, lines) ==
    LET g == ExtractGenerator(lines, clock)
    IN  /\ db_data' = dbd
        /\ UNCHANGED db_rows
        /\ IF g.err # ""
           THEN /\ chat_res' = Raise(g.err)
                /\ data' = d
                /\ UNCHANGED gen_vars
           ELSE /\ stage' = "extracted"
                /\ response_iter' = lines
                /\ it_pos' = g.it_pos
                /\ chat_record_reply' = g.reply
                /\ is_think_emptied' = g.emptied
                /\ gen_state' = [m \in Modes |-> "created"]
                /\ gen_res' = [m \in Modes |-> NoCall]
                /\ yielded' = [m \in Modes |-> <<>>]
                /\ handed' = IF think THEN Modes ELSE {"text"}
                /\ overtaken' = FALSE
                /\ think_first' = FALSE
                /\ data' = AppendExchange(Freeze(d), index, chat_record_now,
                                          ReplyRef)
                /\ chat_res' = Return([record |-> "chat_record_reply",
                                       generators |-> IF think THEN 2 ELSE 1])

\* chat's non-stream branch after the request returned `response_json`
ChatRecordReply(t, index, d, dbd, chat_record_now, response_json) ==
    /\ UNCHANGED gen_vars
    /\ IF RaisesKeyError(response_json)
       THEN /\ chat_res' = Raise("KeyError")
            /\ data' = d
            /\ db_data' = dbd
            /\ UNCHANGED db_rows
       ELSE LET chat_record_reply_ == extract_response_record(response_json, clock)
                inserted == insert_db(dbd, db_rows, t, chat_record_reply_)
            IN  /\ data' = AppendExchange(d, index, chat_record_now,
                                          chat_record_reply_)
                /\ db_data' = inserted.db_data
                /\ db_rows' = inserted.db_rows
                /\ chat_res' = IF inserted.err = "" THEN Return(chat_record_reply_)
                               ELSE Raise(inserted.err)

\* chat(text, index, system, web, web_mark, think, stream, history_max_char,
\*      history_max_time), called by thread t and answered with `response`
Chat(t, text, index, sys, web, web_mark, think, stream, max_char, max_time, response) ==
    /\ built
    /\ call' = [op |-> "chat", text |-> text, index |-> index, think |-> think,
                stream |-> stream, before |-> Freeze(data), response |-> response]
    /\ chats' = chats + 1
    /\ UNCHANGED <<clock, inst_vars, baidu_vars, rec_vars, server_vars>>
    /\ IF text = "" THEN ChatRejects("ValueError")
       ELSE IF ThinkNeedsStream(think, stream) THEN ChatRejects("ValueError")
       ELSE
       LET history == IF index # None
                      THEN get_chat_records_history(data, index[1], max_char,
                                                    max_time, TRUE, clock)
                      ELSE [data |-> data, records |-> <<>>, err |-> ""]
       IN  IF history.err # ""
           THEN /\ chat_res' = Raise(history.err)
                /\ data' = history.data
                /\ UNCHANGED <<requests, db_data, db_rows, gen_vars>>
           ELSE
           LET system_ == JoinSystem(sys)
               chat_records_role ==
                   IF system_ # None
                   THEN <<ChatRecord(clock, "system", system_[1])>> ELSE <<>>
               chat_record_now == ChatRecord(clock, "user", text)
               messages == Messages(chat_records_role \o history.records
                                        \o <<chat_record_now>>)
               db1 == db_record_set(db_data, t, "messages", messages)
               db2 == db_record_set(db1, t, "model", Some(model))
               json == [messages |-> messages, result_format |-> "message",
                        enable_search |-> web,
                        enable_citation |-> IF web THEN Some(web_mark) ELSE None,
                        enable_thinking |-> think, stream |-> stream]
               db3 == db_record_set(db2, t, "request_time", clock)
               r == request(json, stream, response)
               db4 == db_record_set(db3, t, "response_time", clock)
           IN  /\ requests' = Append(requests, r.sent)
               /\ IF r.out.kind = "raise"
                  THEN /\ chat_res' = r.out
                       /\ data' = history.data
                       /\ db_data' = db3
                       /\ UNCHANGED <<db_rows, gen_vars>>
                  ELSE IF stream
                  THEN ChatStream(t, index, think, history.data, db4,
                                  chat_record_now, r.out.value)
                  ELSE ChatRecordReply(t, index, history.data, db4,
                                       chat_record_now, r.out.value)

-----------------------------------------------------------------------------
(* Spec: chats on an instance that holds a short history, each followed by  *)
(* next() calls on the generators it returned.                              *)

\* most chat calls in one behaviour
MaxChats == 1

ChatTexts == {"", "Hello"}

ChatIndexes == {None} \cup {Some(index) : index \in Indexes}

\* (system, web, web_mark, history_max_char, history_max_time) of a call
ChatOptions ==
    { <<None, FALSE, FALSE, None, None>>,
      <<Some("X"), TRUE, TRUE, Some(9), Some(25)>> }

\* the reply texts of the non-stream answers
Bodies ==
    { Json(TRUE, Some("Hi there"), None, Some(Usage(1, 2, None)), <<>>),
      Json(TRUE, Some("Hi there"), None, None, <<>>),
      Json(TRUE, Some(""), None, Some(Usage(1, 0, None)), <<>>),
      Json(TRUE, None, None, Some(Usage(1, 0, None)), Search1),
      Json(FALSE, None, None, Some(Usage(1, 0, None)), <<>>) }

FailedResponses ==
    { [JsonResponse(OtherLine) EXCEPT !.status = "error"],
      [JsonResponse(OtherLine) EXCEPT !.code = TRUE],
      [JsonResponse(OtherLine) EXCEPT !.content_type = "text/html"] }

ChatStreams ==
    { <<>>,
      <<OtherLine>>,
      <<Json(TRUE, Some("a"), None, None, <<>>),
        Json(TRUE, Some("bc"), Some(""), Some(Usage(1, 2, None)), Search1)>> }

\* what the vendor may answer to a request
Responses(stream) ==
    IF stream
    THEN {StreamResponse(lines) : lines \in ChatStreams}
             \cup {r \in FailedResponses : r.status # "ok"}
    ELSE {JsonResponse(body) : body \in Bodies} \cup FailedResponses

\* (system, history_max_char, history_max_time) of the instance and the
\* history of "s1" it holds when the behaviour starts
Instances ==
    { <<None, None, None, <<>> >>,
      <<Some("S"), Some(2), Some(15),
        <<HistoryRecord(0, "x"), HistoryRecord(10 * SecondMs, "yz")>> >> }

Init ==
    /\ built = TRUE
    /\ init_res = NoCall
    /\ rand = 5
    /\ database \in BOOLEAN
    /\ \E o \in Instances :
           /\ system = o[1]
           /\ history_max_char = o[2]
           /\ history_max_time = o[3]
           /\ data = IF o[4] = <<>> THEN EmptyDict
                     ELSE DictSet(EmptyDict, "s1", o[4])
    /\ clock = 20 * SecondMs
    /\ requests = <<>>
    /\ chats = 0
    /\ chat_res = NoCall
    /\ call = [op |-> "none"]
    /\ NoClosure
    /\ NoRecords
    /\ NoThreads
    /\ NoServer
    /\ NoBaidu

\* chat is called by the first thread; any thread advances the generators
ChatCall ==
    /\ chats < MaxChats
    /\ \E text \in ChatTexts, index \in ChatIndexes, think \in BOOLEAN,
          stream \in BOOLEAN, o \in ChatOptions :
           \E response \in Responses(stream) :
               Chat(1, text, index, o[1], o[2], o[3], think, stream, o[4], o[5],
                    response)

Next ==
    \/ ChatCall
    \/ NextText
    \/ NextThink

Spec == Init /\ [][Next]_vars

-----------------------------------------------------------------------------
(* SpecRequest: request(json, stream) against every modelled answer of the  *)
(* vendor.                                                                  *)

\* most requests sent in one behaviour of SpecRequest
MaxRequests == 1

ContentTypes ==
    {"application/json", "application/json; charset=utf-8", "text/html"}

\* what the vendor may answer, whatever was asked
RequestResponses ==
    [status : {"ok", "error"}, content_type : ContentTypes, code : BOOLEAN,
     body : {Json(TRUE, Some("Hi there"), None, None, <<>>),
             Json(FALSE, None, None, None, <<>>)},
     lines : {<<>>, <<OtherLine>>}]

\* the body chat hands to request for the text "Hello"
RequestJson(stream) ==
    [messages |-> Messages(<<ChatRecord(0, "user", "Hello")>>),
     result_format |-> "message", enable_search |-> FALSE,
     enable_citation |-> None, enable_thinking |-> FALSE, stream |-> stream]

\* self.request(json, stream), answered with `response`
Request(json, stream, response) ==
    /\ built
    /\ LET r == request(json, stream, response)
       IN  /\ requests' = Append(requests, r.sent)
           /\ chat_res' = r.out
    /\ call' = [op |-> "request", stream |-> stream, response |-> response]
    /\ UNCHANGED <<data, clock, chats, db_data, db_rows, inst_vars, gen_vars,
                   baidu_vars, rec_vars, server_vars>>

InitRequest ==
    /\ built = TRUE
    /\ init_res = NoCall
    /\ rand \in {0, 5, RandOne}
    /\ database = FALSE
    /\ system = None
    /\ history_max_char = None
    /\ history_max_time = None
    /\ data = EmptyDict
    /\ clock = 0
    /\ requests = <<>>
    /\ chats = 0
    /\ chat_res = NoCall
    /\ call = [op |-> "none"]
    /\ NoClosure
    /\ NoRecords
    /\ NoThreads
    /\ NoServer
    /\ NoBaidu

RequestCall ==
    /\ Len(requests) < MaxRequests
    /\ \E stream \in BOOLEAN, response \in RequestResponses :
           Request(RequestJson(stream), stream, response)

NextRequest == RequestCall

SpecRequest == InitRequest /\ [][NextRequest]_vars

\* ---------------------------------------------------------------------------
\* APIAliQwen.append_chat_records_history (rali.py)
\* ---------------------------------------------------------------------------

\* the `records` argument: a str, a dict, or a list of them
StrArg(s) == [type |-> "str", value |-> s]

\* a dict with the keys that are not None
DictArg(time, role, content) ==
    [type |-> "dict", time |-> time, role |-> role, content |-> content]

ListArg(items) == [type |-> "list", items |-> items]

\* the content of a record to append: a string, or a list written as Python
\* shows it, with the number of its items
StrContent(s) == [str |-> s, len |-> Len(s)]

\* repr() of an item of the list
ItemRepr(item) ==
    IF item.type = "str" THEN "'" \o item.value \o "'"
    ELSE "{'content': '" \o item.content[1] \o "'}"

RECURSIVE ItemsRepr(_)
ItemsRepr(items) ==
    IF items = <<>> THEN ""
    ELSE IF Len(items) = 1 THEN ItemRepr(items[1])
    ELSE ItemRepr(items[1]) \o ", " \o ItemsRepr(Tail(items))

ListContent(items) == [str |-> "[" \o ItemsRepr(items) \o "]", len |-> Len(items)]

\* {'content': content}
ContentOnly(content) == [time |-> None, role |-> None, content |-> Some(content)]

\* # Handle parameter: the list of dicts the argument becomes. Inside the
\* list comprehension `records` is the whole list.
HandleRecords(records) ==
    IF records.type = "str" THEN <<ContentOnly(StrContent(records.value))>>
    ELSE IF records.type = "dict"
    THEN << [time |-> records.time, role |-> records.role,
             content |-> IF records.content = None THEN None
                         ELSE Some(StrContent(records.content[1]))] >>
    ELSE [i \in 1..Len(records.items) |->
             LET record == records.items[i]
             IN  IF record.type = "str" THEN ContentOnly(ListContent(records.items))
                 ELSE [time |-> record.time, role |-> record.role,
                       content |-> IF record.content = None THEN None
                                   ELSE Some(StrContent(record.content[1]))]]

\* the chat record built of one dict (defined when it has a 'content')
AppendedRecord(record, now_timestamp) ==
    [time |-> IF record.time = None THEN now_timestamp ELSE record.time[1],
     role |-> IF record.role = None THEN "user" ELSE record.role[1],
     content |-> Some(record.content[1].str),
     len |-> Some(record.content[1].len),
     token |-> None, web |-> None, think |-> None]

\* chat_records_history.sort(key=sort_key): a stable sort by 'time'
RECURSIVE InsertByTime(_, _)
InsertByTime(sorted, entry) ==
    IF sorted = <<>> THEN <<entry>>
    ELSE IF Deref(sorted[Len(sorted)]).time <= Deref(entry).time
    THEN Append(sorted, entry)
    ELSE Append(InsertByTime(SubSeq(sorted, 1, Len(sorted) - 1), entry),
                sorted[Len(sorted)])

RECURSIVE SortByTime(_)
SortByTime(entries) ==
    IF entries = <<>> THEN <<>>
    ELSE InsertByTime(SortByTime(SubSeq(entries, 1, Len(entries) - 1)),
                      entries[Len(entries)])

\* append_chat_records_history(records, index, max_char, max_time) at time
\* now: the data afterwards and the exception raised ("" if none)
append_chat_records_history(d, records, index, max_char, max_time, now_timestamp) ==
    LET dicts == HandleRecords(records)
    IN  IF \E i \in 1..Len(dicts) : dicts[i].content = None
        THEN [data |-> d, appended |-> <<>>, err |-> "KeyError"]
        ELSE
        LET new == [i \in 1..Len(dicts) |-> AppendedRecord(dicts[i], now_timestamp)]
            d1 == SetDefault(d, index)
            d2 == [d1 EXCEPT ![index] = SortByTime(@ \o new)]
            trimmed == get_chat_records_history(d2, index, max_char, max_time, TRUE,
                                                now_timestamp)
        IN  [data |-> trimmed.data, appended |-> new, err |-> trimmed.err]

\* One call of append_chat_records_history.
AppendChatRecordsHistory(records, index, max_char, max_time) ==
    /\ built
    /\ LET r == append_chat_records_history(data, records, index, max_char,
                                            max_time, clock)
       IN  /\ data' = r.data
           /\ chat_res' = IF r.err = "" THEN Return(<<>>) ELSE Raise(r.err)
    /\ call' = [op |-> "append_chat_records_history", records |-> records,
                index |-> index, history_max_char |-> max_char,
                history_max_time |-> max_time, now |-> clock,
                before |-> Freeze(data)]
    /\ UNCHANGED <<clock, requests, chats, db_data, db_rows, inst_vars, gen_vars,
                   baidu_vars, rec_vars, server_vars>>

\* ---------------------------------------------------------------------------
\* SpecAppend: appends, fetches and chats on the history of one index
\* ---------------------------------------------------------------------------

\* most records the history holds when a call has added its records
MaxStored == 4

\* most chat calls in one behaviour
MaxAppendChats == 1

\* last second the clock reaches
MaxAppendClockS == 21

\* a timestamp after every time the clock reaches
FutureMs == 100 * SecondMs

AppendArgs ==
    { StrArg("hi"),
      DictArg(Some(FutureMs), Some("assistant"), Some("later")),
      DictArg(Some(0), None, Some("early")),
      DictArg(None, None, None),
      ListArg(<<StrArg("a"), StrArg("bcd")>>) }

AppendMaxChars == {None, Some(8)}

AppendResponses ==
    { JsonResponse(Json(TRUE, Some("Hi there"), None, Some(Usage(1, 2, None)), <<>>)),
      [JsonResponse(OtherLine) EXCEPT !.code = TRUE] }

InitAppend ==
    /\ built = TRUE
    /\ init_res = NoCall
    /\ rand = 5
    /\ database = FALSE
    /\ system = None
    /\ history_max_char = None
    /\ history_max_time = None
    /\ data = EmptyDict
    /\ clock = 20 * SecondMs
    /\ requests = <<>>
    /\ chats = 0
    /\ chat_res = NoCall
    /\ call = [op |-> "none"]
    /\ NoClosure
    /\ NoRecords
    /\ NoThreads
    /\ NoServer
    /\ NoBaidu

\* the number of records stored under "s1"
Stored == IF "s1" \in DOMAIN data THEN Len(data["s1"]) ELSE 0

AppendCall ==
    \E records \in AppendArgs, max_char \in AppendMaxChars :
        /\ Stored + Len(HandleRecords(records)) <= MaxStored
        /\ AppendChatRecordsHistory(records, "s1", max_char, None)

GetCall ==
    \E max_char \in AppendMaxChars, delete \in BOOLEAN :
        GetChatRecordsHistory("s1", max_char, None, delete)

ChatAppendCall ==
    /\ chats < MaxAppendChats
    /\ Stored + 2 <= MaxStored
    /\ \E max_char \in AppendMaxChars, response \in AppendResponses :
           Chat(1, "Hello", Some("s1"), None, FALSE, FALSE, FALSE, FALSE, max_char,
                None, response)

TickAppend ==
    /\ clock + SecondMs <= MaxAppendClockS * SecondMs
    /\ Tick(SecondMs)

NextAppend == AppendCall \/ GetCall \/ ChatAppendCall \/ TickAppend

SpecAppend == InitAppend /\ [][NextAppend]_vars

\* ---------------------------------------------------------------------------
\* APIBaidu / APIBaiduChat (rbaidu.py)
\* ---------------------------------------------------------------------------

DaySeconds == 86400

\* timedelta.seconds of an interval of `ms` milliseconds: the seconds component
\* of the normalised (days, seconds, microseconds) triple
TdSeconds(ms) == (ms \div SecondMs) % DaySeconds

\* the answers of the vendor's token endpoint
TokenGranted(token) == [ok |-> TRUE, access_token |-> token]

TokenRefused == [ok |-> FALSE, access_token |-> ""]

\* APIBaidu.get_token: one request to the token endpoint
get_token(answer) ==
    IF answer.ok THEN Return(answer.access_token) ELSE Raise("AssertionError")

\* The property APIBaidu.token, read at time `now`; `answer` is what the
\* token endpoint replies if it is asked.
token(self, now, answer) ==
    IF \/ self.token_time = None
       \/ TdSeconds(now - self.token_time[1]) > self.token_valid_seconds
    THEN LET fetched == get_token(answer)
         IN  [token_time |-> Some(now),
              token |-> IF fetched.kind = "return" THEN Some(fetched.value)
                        ELSE self.token,
              fetches |-> 1,
              out |-> fetched]
    ELSE [token_time |-> self.token_time,
          token |-> self.token,
          fetches |-> 0,
          out |-> IF self.token = None THEN Raise("AttributeError")
                  ELSE Return(self.token[1])]

\* the APIBaidu object as a record of its attributes
BaiduSelf ==
    [character |-> bd_character, token_valid_seconds |-> bd_token_valid_seconds,
     token_time |-> bd_token_time, token |-> bd_token,
     chat_records |-> bd_chat_records, call_records |-> bd_call_records]

\* one chat record of APIBaiduChat.chat_records
BaiduRecord(time, send, receive) == [time |-> time, send |-> send, receive |-> receive]

\* the message pair of one chat record
MessagePair(record) ==
    << [role |-> "user", content |-> record.send],
       [role |-> "assistant", content |-> record.receive] >>

\* The loop of APIBaiduChat.history_messages from record i on.
RECURSIVE HistoryLoop(_, _, _, _, _, _, _, _)
HistoryLoop(records, i, character, now_time, recent_seconds, max_word, word_count, messages) ==
    IF i > Len(records) THEN Return(messages)
    ELSE LET record == records[i]
             interval_ms == now_time - record.time
         IN  IF interval_ms > recent_seconds * SecondMs THEN Return(messages)
             ELSE IF character = None THEN Raise("TypeError")
             ELSE LET word_len == Len(record.send) + Len(record.receive)
                      character_len == Len(character[1])
                  IN  IF word_count + word_len + character_len > max_word
                      THEN Return(messages)
                      ELSE HistoryLoop(records, i + 1, character, now_time,
                                       recent_seconds, max_word,
                                       word_count + word_len,
                                       messages \o MessagePair(record))

\* APIBaiduChat.history_messages
history_messages(self, key, now_time, recent_seconds, max_word) ==
    LET records == IF key \in DOMAIN self.chat_records THEN self.chat_records[key]
                   ELSE <<>>
    IN  HistoryLoop(records, 1, self.character, now_time, recent_seconds, max_word,
                    0, <<>>)

\* the `character` argument of APIBaiduChat.chat: None, False or a string
CharacterNone == [kind |-> "None", value |-> ""]

CharacterFalse == [kind |-> "False", value |-> ""]

CharacterStr(s) == [kind |-> "str", value |-> s]

\* the answers of the vendor's chat endpoint
ChatResult(result) == [kind |-> "result", error_code |-> 0, result |-> result]

ChatError(code) == [kind |-> "error", error_code |-> code, result |-> ""]

ChatNoResult == [kind |-> "noresult", error_code |-> 0, result |-> ""]

SystemUnsupported == 336104

\* APIBaiduChat.record_chat
record_chat(chat_records, send, receive, key, now) ==
    LET record == BaiduRecord(now, send, receive)
    IN  IF key \in DOMAIN chat_records
        THEN [chat_records EXCEPT ![key] = Append(@, record)]
        ELSE DictSet(chat_records, key, <<record>>)

\* APIBaiduChat.chat at time `now`. `token_answer` is what the token endpoint
\* replies if asked, `answers` what the chat endpoint replies to the successive
\* requests. The result carries the object after the call, the requests sent
\* to the chat endpoint and the number of token requests; its `out` is NoCall
\* if `answers` ends before the call does.
RECURSIVE chat(_, _, _, _, _, _, _, _, _)
chat(self, text, character, history_key, history_recent_seconds, history_max_word, now, token_answer, answers) ==
    LET tk == token(self, now, token_answer)
        self1 == [self EXCEPT !.token_time = tk.token_time, !.token = tk.token]
        history == IF history_key = None THEN Return(<<>>)
                   ELSE history_messages(self1, history_key[1], now,
                                         history_recent_seconds, history_max_word)
        stopped(out) == [self |-> self1, requests |-> <<>>, fetches |-> tk.fetches,
                         out |-> out]
    IN  IF tk.out.kind = "raise" THEN stopped(tk.out)
        ELSE IF history.kind = "raise" THEN stopped(history)
        ELSE IF answers = <<>> THEN stopped(NoCall)
        ELSE
        LET messages == Append(history.value, [role |-> "user", content |-> text])
            system_ == CASE character.kind = "None" -> self1.character
                         [] character.kind = "False" -> None
                         [] OTHER -> Some(character.value)
            json == [messages |-> messages, system |-> system_]
            answer == Head(answers)
            failed(error) == [self |-> self1, requests |-> <<json>>,
                              fetches |-> tk.fetches, out |-> Raise(error)]
        IN  IF answer.kind = "error"
            THEN IF answer.error_code = SystemUnsupported
                 THEN LET result == chat(self1, text, CharacterFalse, history_key,
                                         history_recent_seconds, history_max_word,
                                         now, token_answer, Tail(answers))
                      IN  [result EXCEPT !.requests = <<json>> \o @,
                                         !.fetches = @ + tk.fetches]
                 ELSE failed("AssertionError")
            ELSE IF answer.kind = "noresult" THEN failed("KeyError")
            ELSE LET call_record == [time |-> now, messages |-> messages,
                                     character |-> system_]
                     recorded == [self1 EXCEPT !.call_records = Append(@, call_record)]
                 IN  [self |-> IF history_key = None THEN recorded
                               ELSE [recorded EXCEPT !.chat_records =
                                        record_chat(@, text, answer.result,
                                                    history_key[1], now)],
                      requests |-> <<json>>,
                      fetches |-> tk.fetches,
                      out |-> Return(answer.result)]

\* the object's attributes become those of `self`
BaiduBecomes(self) ==
    /\ bd_token_time' = self.token_time
    /\ bd_token' = self.token
    /\ bd_chat_records' = self.chat_records
    /\ bd_call_records' = self.call_records
    /\ UNCHANGED <<bd_character, bd_token_valid_seconds>>

\* everything that is not the Baidu object or the clock
ali_vars == <<data, requests, chat_res, db_data, db_rows, inst_vars, gen_vars>>

\* One call of APIBaiduChat.chat, its nested retries included.
BaiduChat(text, character, history_key, history_recent_seconds, history_max_word, token_answer, answers) ==
    LET r == chat(BaiduSelf, text, character, history_key, history_recent_seconds,
                  history_max_word, clock, token_answer, answers)
    IN  /\ r.out.kind # "none"
        /\ Len(r.requests) = Len(answers)
        /\ BaiduBecomes(r.self)
        /\ bd_requests' = r.requests
        /\ bd_fetches' = bd_fetches + r.fetches
        /\ bd_res' = r.out
        /\ call' = [op |-> "baidu_chat", text |-> text, character |-> character,
                    history_key |-> history_key, answers |-> answers]
        /\ chats' = chats + 1
        /\ UNCHANGED <<clock, bd_task, ali_vars, rec_vars, server_vars>>

\* One call of APIBaiduChat.history_messages.
BaiduHistoryMessages(key, recent_seconds, max_word) ==
    /\ bd_res' = history_messages(BaiduSelf, key, clock, recent_seconds, max_word)
    /\ bd_requests' = <<>>
    /\ call' = [op |-> "history_messages", key |-> key,
                recent_seconds |-> recent_seconds, max_word |-> max_word]
    /\ chats' = chats + 1
    /\ UNCHANGED <<bd_character, bd_token_valid_seconds, bd_token_time, bd_token,
                   bd_chat_records, bd_call_records, bd_fetches, bd_task, clock,
                   ali_vars, rec_vars, server_vars>>

\* ---------------------------------------------------------------------------
\* SpecBaiduChat: an APIBaiduChat object with a chat history
\* ---------------------------------------------------------------------------

MaxBaiduCalls == 1
MaxAnswers == 3
MaxBaiduTicks == 2

TokenValidSeconds == 43200
RecentSeconds == 1800
TenMinutesMs == 600 * SecondMs
BaiduStartMs == 3 * TenMinutesMs

OtherErrorCode == 17

ChatAnswers ==
    {ChatResult("Hi"), ChatError(SystemUnsupported), ChatError(OtherErrorCode),
     ChatNoResult}

\* What the chat endpoint replies to the successive requests of one call: only
\* the answer SystemUnsupported is followed by a further request.
ChatAnswerSeqs ==
    {<<>>} \cup
    { [i \in 1..n |-> IF i < n THEN ChatError(SystemUnsupported) ELSE last] :
        n \in 1..MaxAnswers, last \in ChatAnswers }

TokenAnswers == {TokenGranted("tk"), TokenRefused}

BaiduKeys == {"k"}

MaxWords == {8, 400}

\* the chat histories the object starts with: at BaiduStartMs the first record
\* of the second history is 30 minutes old, the second 10 minutes
BaiduHistories ==
    { EmptyDict,
      DictSet(EmptyDict, "k", <<BaiduRecord(0, "old", "OLD")>>),
      DictSet(EmptyDict, "k", <<BaiduRecord(0, "old", "OLD"),
                                BaiduRecord(2 * TenMinutesMs, "new", "NEW")>>) }

InitBaiduChat ==
    /\ NoClosure
    /\ NoRecords
    /\ NoThreads
    /\ NoServer
    /\ built = FALSE
    /\ init_res = NoCall
    /\ rand = 5
    /\ database = FALSE
    /\ system = None
    /\ history_max_char = None
    /\ history_max_time = None
    /\ data = EmptyDict
    /\ requests = <<>>
    /\ chats = 0
    /\ chat_res = NoCall
    /\ call = [op |-> "none"]
    /\ clock = BaiduStartMs
    /\ bd_character \in {None, Some("c")}
    /\ bd_token_valid_seconds = TokenValidSeconds
    /\ bd_token_time = None
    /\ bd_token = None
    /\ bd_chat_records \in BaiduHistories
    /\ bd_call_records = <<>>
    /\ bd_fetches = 0
    /\ bd_requests = <<>>
    /\ bd_res = NoCall
    /\ bd_task = NoTask

BaiduChatCall ==
    /\ chats < MaxBaiduCalls
    /\ \E text \in {"Hello"}, character \in {CharacterNone, CharacterStr("s")},
          history_key \in {None} \cup {Some(k) : k \in BaiduKeys},
          max_word \in MaxWords, token_answer \in TokenAnswers,
          answers \in ChatAnswerSeqs :
            BaiduChat(text, character, history_key, RecentSeconds, max_word,
                      token_answer, answers)

BaiduHistoryCall ==
    /\ chats < MaxBaiduCalls
    /\ \E key \in BaiduKeys, max_word \in MaxWords :
            BaiduHistoryMessages(key, RecentSeconds, max_word)

TickBaiduChat ==
    /\ clock + TenMinutesMs <= BaiduStartMs + MaxBaiduTicks * TenMinutesMs
    /\ Tick(TenMinutesMs)

NextBaiduChat == BaiduChatCall \/ BaiduHistoryCall \/ TickBaiduChat

SpecBaiduChat == InitBaiduChat /\ [][NextBaiduChat]_vars

\* ---------------------------------------------------------------------------
\* SpecToken: reads of APIBaidu.token while time passes
\* ---------------------------------------------------------------------------

MaxTokenTicks == 6

SixHoursMs == 6 * 3600 * SecondMs

TokenReplies == {TokenGranted("t1"), TokenGranted("t2"), TokenRefused}

\* One read of the property APIBaidu.token.
TokenRead(answer) ==
    LET r == token(BaiduSelf, clock, answer)
    IN  /\ bd_token_time' = r.token_time
        /\ bd_token' = r.token
        /\ bd_fetches' = bd_fetches + r.fetches
        /\ bd_res' = r.out
        /\ bd_requests' = <<>>
        /\ call' = [op |-> "token", now |-> clock, token_time |-> bd_token_time,
                    fetches |-> r.fetches]
        /\ UNCHANGED <<bd_character, bd_token_valid_seconds, bd_chat_records,
                       bd_call_records, bd_task, chats, clock, ali_vars, rec_vars, server_vars>>

InitToken ==
    /\ NoClosure
    /\ NoRecords
    /\ NoThreads
    /\ NoServer
    /\ built = FALSE
    /\ init_res = NoCall
    /\ rand = 5
    /\ database = FALSE
    /\ system = None
    /\ history_max_char = None
    /\ history_max_time = None
    /\ data = EmptyDict
    /\ requests = <<>>
    /\ chats = 0
    /\ chat_res = NoCall
    /\ call = [op |-> "none"]
    /\ clock = 0
    /\ bd_character = None
    /\ bd_token_valid_seconds = TokenValidSeconds
    /\ bd_token_time = None
    /\ bd_token = None
    /\ bd_chat_records = EmptyDict
    /\ bd_call_records = <<>>
    /\ bd_fetches = 0
    /\ bd_requests = <<>>
    /\ bd_res = NoCall
    /\ bd_task = NoTask

TokenReadCall == \E answer \in TokenReplies : TokenRead(answer)

TickToken ==
    /\ clock + SixHoursMs <= MaxTokenTicks * SixHoursMs
    /\ Tick(SixHoursMs)

NextToken == TokenReadCall \/ TickToken

SpecToken == InitToken /\ [][NextToken]_vars

\* ---------------------------------------------------------------------------
\* APIBaiduImage.to_url / APIBaiduVoice.to_url (rbaidu.py): create a task, then
\* wait(is_task_success, _interval=0.5, _timeout=600)
\* ---------------------------------------------------------------------------

PollIntervalMs == 500
PollTimeoutMs == 600000

TaskKinds == {"image", "voice"}

\* the task_status values each class matches
RunningOf(kind) == IF kind = "image" THEN "RUNNING" ELSE "Running"

SuccessOf(kind) == IF kind = "image" THEN "SUCCESS" ELSE "Success"

\* the 'case _' of is_task_success, for every status but running and success
KeepsPollingUnlessSuccess(kind, status) == status # SuccessOf(kind)

\* is_task_success returns False: the task is polled again
KeepsPolling(kind, status) == status = RunningOf(kind)

\* the answers of the vendor to a status query
TaskStatus(status, url) == [ok |-> TRUE, task_status |-> status, url |-> url]

QueryRefused == [ok |-> FALSE, task_status |-> "", url |-> ""]

\* is_task_success: one status query and its judgement. True and False are
\* the function's results, a raise leaves wait().
is_task_success(kind, answer) ==
    IF ~answer.ok THEN Raise("AssertionError")
    ELSE IF KeepsPolling(kind, answer.task_status) THEN Return(FALSE)
    ELSE IF answer.task_status = SuccessOf(kind) THEN Return(TRUE)
    ELSE Raise("AssertionError")

\* reykit.rtime.wait with a timeout: after a False result the time spent since
\* the start is compared with the timeout
TimedOut(start, now) == now - start > PollTimeoutMs

\* to_url up to the start of wait(): the token is read and the task created.
ToUrlStart(kind, text, token_answer, created) ==
    LET tk == token(BaiduSelf, clock, token_answer)
        failed(out) == /\ bd_task' = [pc |-> "done", kind |-> kind, start |-> clock,
                                      polls |-> <<>>]
                       /\ bd_res' = out
                       /\ UNCHANGED bd_call_records
    IN  /\ bd_task.pc = "idle"
        /\ bd_token_time' = tk.token_time
        /\ bd_token' = tk.token
        /\ bd_fetches' = bd_fetches + tk.fetches
        /\ bd_requests' = <<>>
        /\ call' = [op |-> "to_url", kind |-> kind, text |-> text]
        /\ IF tk.out.kind = "raise" THEN failed(tk.out)
           ELSE IF ~created THEN failed(Raise("AssertionError"))
           ELSE /\ bd_call_records' = Append(bd_call_records,
                                             [time |-> clock, text |-> text])
                /\ bd_task' = [pc |-> "query", kind |-> kind, start |-> clock,
                               polls |-> <<>>]
                /\ bd_res' = NoCall
        /\ UNCHANGED <<bd_character, bd_token_valid_seconds, bd_chat_records, chats,
                       clock, ali_vars, rec_vars, server_vars>>

\* One call of is_task_success by wait(), taking `duration` ms, and what wait()
\* and to_url do with its result.
PollQuery(duration, answer) ==
    LET kind == bd_task.kind
        now == clock + duration
        judged == is_task_success(kind, answer)
        poll == [begin |-> clock, end |-> now, task_status |-> answer.task_status]
        task == [bd_task EXCEPT !.polls = Append(@, poll)]
    IN  /\ bd_task.pc = "query"
        /\ clock' = now
        /\ bd_requests' = Append(bd_requests, [begin |-> clock, end |-> now])
        /\ IF judged.kind = "raise"
           THEN /\ bd_task' = [task EXCEPT !.pc = "done"]
                /\ bd_res' = judged
           ELSE IF judged.value
           THEN /\ bd_task' = [task EXCEPT !.pc = "done"]
                /\ bd_res' = Return(answer.url)
           ELSE IF TimedOut(bd_task.start, now)
           THEN /\ bd_task' = [task EXCEPT !.pc = "done"]
                /\ bd_res' = Raise("TimeoutError")
           ELSE /\ bd_task' = [task EXCEPT !.pc = "sleep"]
                /\ UNCHANGED bd_res
        /\ UNCHANGED <<bd_character, bd_token_valid_seconds, bd_token_time, bd_token,
                       bd_chat_records, bd_call_records, bd_fetches, call, chats,
                       ali_vars, rec_vars, server_vars>>

\* sleep(_interval) of wait()
PollSleep ==
    /\ bd_task.pc = "sleep"
    /\ clock' = clock + PollIntervalMs
    /\ bd_task' = [bd_task EXCEPT !.pc = "query"]
    /\ UNCHANGED <<bd_character, bd_token_valid_seconds, bd_token_time, bd_token,
                   bd_chat_records, bd_call_records, bd_fetches, bd_requests, bd_res,
                   call, chats, ali_vars, rec_vars, server_vars>>

\* ---------------------------------------------------------------------------
\* SpecPoll: one to_url call
\* ---------------------------------------------------------------------------

\* how long a status query takes
QueryDurations == {100000, 250000}

TaskUrl == "http://u"

QueryAnswers(kind) ==
    {TaskStatus(RunningOf(kind), ""), TaskStatus(SuccessOf(kind), TaskUrl),
     TaskStatus("Failed", ""), QueryRefused}

InitPoll ==
    /\ NoClosure
    /\ NoRecords
    /\ NoThreads
    /\ NoServer
    /\ built = FALSE
    /\ init_res = NoCall
    /\ rand = 5
    /\ database = FALSE
    /\ system = None
    /\ history_max_char = None
    /\ history_max_time = None
    /\ data = EmptyDict
    /\ requests = <<>>
    /\ chats = 0
    /\ chat_res = NoCall
    /\ call = [op |-> "none"]
    /\ clock = 0
    /\ bd_character = None
    /\ bd_token_valid_seconds = TokenValidSeconds
    /\ bd_token_time = None
    /\ bd_token = None
    /\ bd_chat_records = EmptyDict
    /\ bd_call_records = <<>>
    /\ bd_fetches = 0
    /\ bd_requests = <<>>
    /\ bd_res = NoCall
    /\ bd_task = NoTask

ToUrlCall ==
    \E kind \in TaskKinds, token_answer \in TokenAnswers, created \in BOOLEAN :
        ToUrlStart(kind, "Hello", token_answer, created)

PollQueryStep ==
    \E duration \in QueryDurations, answer \in QueryAnswers(bd_task.kind) :
        PollQuery(duration, answer)

NextPoll == ToUrlCall \/ PollQueryStep \/ PollSleep

SpecPoll == InitPoll /\ [][NextPoll]_vars

\* the call runs on: the thread is never suspended for ever
SpecPollLive == SpecPoll /\ WF_vars(PollQueryStep) /\ WF_vars(PollSleep)


-----------------------------------------------------------------------------
(* APIDatabaseRecord used by several threads.  A thread runs __setitem__ and *)
(* record() statement by statement; between two statements of one thread    *)
(* any other thread may run.                                                *)

\* the keys and values the threads set
RecordItems == {<<"reply", "a">>, <<"reply", "b">>, <<"think", "t">>}

other_vars == <<data, clock, requests, chats, chat_res, call, inst_vars,
                gen_vars, baidu_vars, server_vars>>

\* thread t calls self[key] = value: "# Check."
SetItemCall ==
    \E t \in Threads, item \in RecordItems :
    /\ rec_task[t].pc = "idle"
    /\ rec_calls < MaxBufferCalls
    /\ rec_calls' = rec_calls + 1
    /\ rec_task' = [rec_task EXCEPT ![t] =
                       IF ~database THEN Idle
                       ELSE [pc |-> "set_setdefault", key |-> item[1],
                             value |-> item[2]]]
    /\ UNCHANGED <<db_data, db_rows, rec_since, other_vars>>

\* record = self.data.setdefault(thread_id, {})
SetItemSetDefault ==
    \E t \in Threads :
    /\ rec_task[t].pc = "set_setdefault"
    /\ db_data' = SetDefaultThread(db_data, t)
    /\ rec_task' = [rec_task EXCEPT ![t].pc = "set_update"]
    /\ UNCHANGED <<db_rows, rec_since, rec_calls, other_vars>>

\* record[key] = value
SetItemUpdate ==
    \E t \in Threads :
    /\ rec_task[t].pc = "set_update"
    /\ db_data' = UpdateRecord(db_data, t, rec_task[t].key, rec_task[t].value)
    /\ rec_since' = [rec_since EXCEPT ![t] =
                        DictSet(@, rec_task[t].key, rec_task[t].value)]
    /\ rec_task' = [rec_task EXCEPT ![t] = Idle]
    /\ UNCHANGED <<db_rows, rec_calls, other_vars>>

\* thread t calls record(): "# Check."
RecordCall ==
    \E t \in Threads :
    /\ rec_task[t].pc = "idle"
    /\ rec_calls < MaxBufferCalls
    /\ rec_calls' = rec_calls + 1
    /\ rec_task' = [rec_task EXCEPT ![t] =
                       IF ~database THEN Idle
                       ELSE [Idle EXCEPT !.pc = "rec_setdefault"]]
    /\ UNCHANGED <<db_data, db_rows, rec_since, other_vars>>

\* record = self.data.setdefault(thread_id, {})
RecordSetDefault ==
    \E t \in Threads :
    /\ rec_task[t].pc = "rec_setdefault"
    /\ db_data' = SetDefaultThread(db_data, t)
    /\ rec_task' = [rec_task EXCEPT ![t].pc = "rec_insert"]
    /\ UNCHANGED <<db_rows, rec_since, rec_calls, other_vars>>

\* self.api.database.execute_insert(path, record)
RecordInsert ==
    \E t \in Threads :
    /\ rec_task[t].pc = "rec_insert"
    /\ db_rows' = Append(db_rows, RecordOfThread(db_data, t))
    /\ rec_task' = [rec_task EXCEPT ![t].pc = "rec_delete"]
    /\ UNCHANGED <<db_data, rec_since, rec_calls, other_vars>>

\* del self.data[thread_id]
RecordDelete ==
    \E t \in Threads :
    /\ rec_task[t].pc = "rec_delete"
    /\ db_data' = DeleteThread(db_data, t)
    /\ rec_since' = [rec_since EXCEPT ![t] = EmptyDict]
    /\ rec_task' = [rec_task EXCEPT ![t] = Idle]
    /\ UNCHANGED <<db_rows, rec_calls, other_vars>>

-----------------------------------------------------------------------------
(* SpecRecord: MaxBufferCalls calls of __setitem__ and record() by the       *)
(* threads, in every interleaving of their statements.                      *)

InitRecord ==
    /\ built = TRUE
    /\ init_res = NoCall
    /\ rand = 5
    /\ database \in BOOLEAN
    /\ system = None
    /\ history_max_char = None
    /\ history_max_time = None
    /\ data = EmptyDict
    /\ clock = 0
    /\ requests = <<>>
    /\ chats = 0
    /\ chat_res = NoCall
    /\ call = [op |-> "none"]
    /\ NoClosure
    /\ NoRecords
    /\ NoThreads
    /\ NoServer
    /\ NoBaidu

NextRecord ==
    \/ SetItemCall
    \/ SetItemSetDefault
    \/ SetItemUpdate
    \/ RecordCall
    \/ RecordSetDefault
    \/ RecordInsert
    \/ RecordDelete

SpecRecord == InitRecord /\ [][NextRecord]_vars

-----------------------------------------------------------------------------
(* Server.__create_lifespan (src/src/reyserver/rserver.py).  A task is a      *)
(* coroutine function, named by a string; the argument `before` / `after`   *)
(* is None, one task, or a sequence of tasks.  ls_log lists what the        *)
(* lifespan coroutine and the server did, in order.                         *)

TaskNames == {"a", "b"}

NoTasks == [kind |-> "none"]

OneTask(f) == [kind |-> "function", task |-> f]

TaskList(fs) == [kind |-> "sequence", tasks |-> fs]

\* iscoroutinefunction(arg)
iscoroutinefunction(arg) == arg.kind = "function"

\* "# Parameter.": None becomes (), one task becomes (task,)
AsTasks(arg) ==
    IF arg.kind = "none" THEN TaskList(<<>>)
    ELSE IF iscoroutinefunction(arg) THEN TaskList(<<arg.task>>)
    ELSE arg

\* an entry of ls_log
Event(step, task) == [step |-> step, task |-> task]

not_server_vars == <<data, clock, requests, chats, chat_res, call, inst_vars,
                     gen_vars, db_data, db_rows, rec_vars, baidu_vars>>

\* for task in before: await task()
BeforeTask ==
    /\ ls_pc = "before"
    /\ ls_i < Len(ls_before.tasks)
    /\ ls_log' = Append(ls_log, Event("before", ls_before.tasks[ls_i + 1]))
    /\ ls_i' = ls_i + 1
    /\ UNCHANGED <<ls_before, ls_after, ls_db_warm, ls_db, ls_pc, ls_res,
                   not_server_vars>>

\* if db_warm: await self.db.warm_all()
WarmAll ==
    /\ ls_pc = "before"
    /\ ls_i = Len(ls_before.tasks)
    /\ IF ~ls_db_warm
       THEN ls_pc' = "yield" /\ UNCHANGED <<ls_log, ls_res>>
       ELSE IF ~ls_db
       THEN \* None has no attribute warm_all
            ls_pc' = "failed" /\ ls_res' = Raise("AttributeError")
                              /\ UNCHANGED ls_log
       ELSE /\ ls_pc' = "yield"
            /\ ls_log' = Append(ls_log, Event("warm_all", ""))
            /\ UNCHANGED ls_res
    /\ UNCHANGED <<ls_before, ls_after, ls_db_warm, ls_db, ls_i,
                   not_server_vars>>

\* yield: the server starts serving
Yielded ==
    /\ ls_pc = "yield"
    /\ ls_pc' = "running"
    /\ ls_log' = Append(ls_log, Event("serve", ""))
    /\ UNCHANGED <<ls_before, ls_after, ls_db_warm, ls_db, ls_i, ls_res,
                   not_server_vars>>

\* the server ends: the coroutine is resumed after its yield
ServerEnds ==
    /\ ls_pc = "running"
    /\ ls_pc' = "after"
    /\ ls_i' = 0
    /\ ls_log' = Append(ls_log, Event("end", ""))
    /\ UNCHANGED <<ls_before, ls_after, ls_db_warm, ls_db, ls_res,
                   not_server_vars>>

\* for task in after: await after()   -- the call is of `after` itself
AfterTask ==
    /\ ls_pc = "after"
    /\ ls_i < Len(ls_after.tasks)
    \* `after` is the tuple or list of "# Parameter.": it is not callable
    /\ ls_pc' = "failed"
    /\ ls_res' = Raise("TypeError")
    /\ UNCHANGED <<ls_before, ls_after, ls_db_warm, ls_db, ls_log, ls_i,
                   not_server_vars>>

\* await self.db.dispose_all()
DisposeAll ==
    /\ ls_pc = "after"
    /\ ls_i = Len(ls_after.tasks)
    /\ IF ~ls_db
       THEN ls_pc' = "failed" /\ ls_res' = Raise("AttributeError")
                              /\ UNCHANGED ls_log
       ELSE /\ ls_pc' = "closed"
            /\ ls_res' = Return(None)
            /\ ls_log' = Append(ls_log, Event("dispose_all", ""))
    /\ UNCHANGED <<ls_before, ls_after, ls_db_warm, ls_db, ls_i,
                   not_server_vars>>

-----------------------------------------------------------------------------
(* SpecLifespan: one start and end of a server built with every `before`    *)
(* and `after` of at most MaxTasks tasks.                                   *)

TaskArgs ==
    {NoTasks} \cup {OneTask(f) : f \in TaskNames}
              \cup {TaskList(fs) : fs \in SeqsUpTo(TaskNames, MaxTasks)}

InitLifespan ==
    /\ built = TRUE
    /\ init_res = NoCall
    /\ rand = 5
    /\ database = FALSE
    /\ system = None
    /\ history_max_char = None
    /\ history_max_time = None
    /\ data = EmptyDict
    /\ clock = 0
    /\ requests = <<>>
    /\ chats = 0
    /\ chat_res = NoCall
    /\ call = [op |-> "none"]
    /\ NoClosure
    /\ NoRecords
    /\ NoThreads
    /\ NoBaidu
    /\ \E before \in TaskArgs, after \in TaskArgs :
           /\ ls_before = AsTasks(before)
           /\ ls_after = AsTasks(after)
    /\ ls_db_warm \in BOOLEAN
    /\ ls_db \in BOOLEAN
    /\ ls_pc = "before"
    /\ ls_i = 0
    /\ ls_log = <<>>
    /\ ls_res = NoCall

NextLifespan ==
    \/ BeforeTask
    \/ WarmAll
    \/ Yielded
    \/ ServerEnds
    \/ AfterTask
    \/ DisposeAll

SpecLifespan == InitLifespan /\ [][NextLifespan]_vars

-----------------------------------------------------------------------------
(* Properties of the lifespan manager (SpecLifespan) *)

\* one log entry per task, in the order of the tasks
TaskEvents(step, tasks) == [i \in 1..Len(tasks) |-> Event(step, tasks[i])]

\* what is executed up to the start of serving
Startup ==
    TaskEvents("before", ls_before.tasks)
        \o (IF ls_db_warm THEN <<Event("warm_all", "")>> ELSE <<>>)
        \o <<Event("serve", "")>>

\* what is executed from the end of serving on
Shutdown ==
    <<Event("end", "")>> \o TaskEvents("after", ls_after.tasks)
                         \o <<Event("dispose_all", "")>>

\* the lifespan coroutine was resumed after the server ended and has finished
LifespanOver ==
    /\ ls_pc \in {"closed", "failed"}
    /\ \E i \in 1..Len(ls_log) : ls_log[i] = Event("end", "")

\* C21: with a database, when the server serves, each 'before' task was
\* executed once, in the given order, followed by the warm-up when db_warm is
\* set, and nothing else; when the lifespan is over, the server's end was
\* followed by each 'after' task once, in the given order, and then by the
\* disposal of the database engines.
C21_LifespanOrder ==
    ls_db =>
        /\ ls_pc = "running" => ls_log = Startup
        /\ LifespanOver => ls_log = Startup \o Shutdown

-----------------------------------------------------------------------------
(* Properties of the record buffer (SpecRecord) *)

\* thread t made a step that took it from position `from` to position `to`
Moved(t, from, to) == rec_task[t].pc = from /\ rec_task'[t].pc = to

\* the entries of the threads other than t are what they were
OthersUntouched(t) ==
    /\ DOMAIN db_data' \ {t} = DOMAIN db_data \ {t}
    /\ \A u \in DOMAIN db_data \ {t} : db_data'[u] = db_data[u]

\* C24: with a database, in every interleaving of the threads' statements,
\* the row a thread's record() inserts holds exactly the keys and values that
\* thread set since its previous record(); the statement of that thread that
\* follows the insert removes the thread's entry; no statement of a thread
\* changes the entry of another thread.
C24_ThreadIsolation ==
    [][ database =>
          \A t \in Threads :
              /\ Moved(t, "rec_insert", "rec_delete") =>
                     db_rows' = Append(db_rows, rec_since[t])
              /\ Moved(t, "rec_delete", "idle") => t \notin DOMAIN db_data'
              /\ rec_task'[t] # rec_task[t] => OthersUntouched(t) ]_vars

C24_Witness ==
    /\ database
    /\ Len(db_rows) = 1
    /\ db_rows[1] = ("reply" :> "a")
    /\ rec_task[1].pc = "rec_delete"
    /\ 2 \in DOMAIN db_data
    /\ db_data[2] = ("reply" :> "b")
    /\ rec_task[2].pc = "set_update"
    /\ rec_task[2].key = "think"

-----------------------------------------------------------------------------
(* Properties of the history window (SpecHistory) *)

RecordTimes(records) == [i \in 1..Len(records) |-> Deref(records[i]).time]

\* a fetch-with-trim of "s1" with a max-age of 15 s and no character limit,
\* 21 s after the first of three records made at 0 s, 10 s and 20 s
C5_Scenario ==
    /\ "s1" \in DOMAIN data
    /\ RecordTimes(data["s1"]) = <<0, 10 * SecondMs, 20 * SecondMs>>
    /\ clock = 21 * SecondMs
    /\ history_max_char = None
    /\ GetChatRecordsHistory("s1", None, Some(15), TRUE)

\* C5 as stated: in that scenario the call returns only the 20 s record and
\* leaves only that record in the stored history.
C5_OnlyNewestKept ==
    [][ C5_Scenario =>
            /\ chat_res' = Return(<<data["s1"][3]>>)
            /\ data'["s1"] = <<data["s1"][3]>> ]_vars

\* C5 as amended: in that scenario the call returns the 10 s and the 20 s
\* record (their ages, 11 s and 1 s, do not exceed 15 s) and removes only the
\* 0 s record from the stored history.
C5_OnlyOldestRemoved ==
    [][ C5_Scenario =>
            /\ chat_res' = Return(<<data["s1"][2], data["s1"][3]>>)
            /\ data'["s1"] = <<data["s1"][2], data["s1"][3]>> ]_vars

C5_Witness ==
    /\ call.op = "get_chat_records_history"
    /\ call.index = "s1" /\ call.delete
    /\ call.history_max_char = None /\ call.history_max_time = Some(15)
    /\ history_max_char = None
    /\ clock = 21 * SecondMs
    /\ RecordTimes(call.before) = <<0, 10 * SecondMs, 20 * SecondMs>>
    /\ chat_res.kind = "return"
    /\ RecordTimes(data["s1"]) = <<10 * SecondMs, 20 * SecondMs>>

-----------------------------------------------------------------------------
(* Properties of the constructor (SpecInit) *)

\* C8: for every value of rand, a construction with rand outside of [0, 1]
\* raises ValueError and builds no instance (the attributes stay as they
\* were), and a construction with rand inside, both endpoints included,
\* raises nothing and builds the instance with that rand.
C8_RandRange ==
    [][ \A db \in BOOLEAN, sys \in Systems, r \in RandValues,
           limits \in InstanceLimits :
            Construct(db, sys, r, limits[1], limits[2]) =>
                IF r < 0 \/ r > RandOne
                THEN /\ init_res' = Raise("ValueError")
                     /\ UNCHANGED <<built, rand, database, system,
                                    history_max_char, history_max_time, data>>
                ELSE /\ init_res'.kind = "return"
                     /\ built' /\ rand' = r ]_vars

\* an instance built with rand = 1, and a later construction with the next
\* value above 1 that raised and left it in place
C8_Witness ==
    /\ call = [op |-> "__init__", rand |-> RandOne + 1]
    /\ init_res = Raise("ValueError")
    /\ built /\ rand = RandOne

-----------------------------------------------------------------------------
(* Properties of chat (Spec) *)

\* the vendor reply {"output":{"choices":[{"message":{"content":"Hi there"}}]}}
HiThere == JsonResponse(Json(TRUE, Some("Hi there"), None, None, <<>>))

\* chat("Hello", index="s1", think=False, stream=False) answered with HiThere
C4_Scenario ==
    Chat(1, "Hello", Some("s1"), None, FALSE, FALSE, FALSE, FALSE, None, None,
         HiThere)

\* C4 as stated: in that scenario chat returns a record with content
\* "Hi there" and role "assistant", and that record is the last one of the
\* history of "s1", right after a record of role "user".
C4_EndToEnd ==
    [][ C4_Scenario =>
            /\ chat_res'.kind = "return"
            /\ chat_res'.value.content = Some("Hi there")
            /\ chat_res'.value.role = "assistant"
            /\ LET h == data'["s1"]
               IN  /\ Len(h) >= 2
                   /\ h[Len(h)] = chat_res'.value
                   /\ h[Len(h) - 1].role = "user" ]_vars

\* the history of key k in d, with the live reply record read out
HistoryOf(d, k) == IF k \in DOMAIN d THEN Freeze(d)[k] ELSE <<>>

\* the history of key k after the step
HistoryAfter(k) ==
    IF k \in DOMAIN data'
    THEN [i \in 1..Len(data'[k]) |->
             IF "ref" \in DOMAIN data'[k][i] THEN chat_record_reply'[1]
             ELSE data'[k][i]]
    ELSE <<>>

\* the step is a chat call; call' holds its arguments
ChatStep == chats' = chats + 1 /\ call'.op = "chat"

\* C7: a chat without index leaves every history as it is and creates no key;
\* a chat with index k that returns leaves in data[k] a tail of the history
\* it found (what the trimming kept), then exactly the user record of the
\* call, then the assistant record, and changes the history of no other key.
C7_AppendedIffIndex ==
    [][ ChatStep =>
            IF call'.index = None
            THEN Freeze(data)' = Freeze(data)
            ELSE chat_res'.kind = "return" =>
                 LET k == call'.index[1]
                     after == HistoryAfter(k)
                     reply == IF call'.stream THEN chat_record_reply'[1]
                              ELSE chat_res'.value
                 IN  /\ DOMAIN data' = DOMAIN data \cup {k}
                     /\ \A j \in DOMAIN data \ {k} :
                            HistoryAfter(j) = HistoryOf(data, j)
                     /\ \E n \in 0..Len(HistoryOf(data, k)) :
                            after = Newest(HistoryOf(data, k), n)
                                        \o <<ChatRecord(clock, "user", call'.text),
                                             reply>>
                     /\ reply.role = "assistant" ]_vars

\* a chat on "s1" that returned, after the trimming dropped the older of the
\* two records it found
C7_Witness ==
    /\ call.op = "chat" /\ call.index = Some("s1")
    /\ chat_res.kind = "return"
    /\ "s1" \in DOMAIN call.before
    /\ Len(call.before["s1"]) = 2
    /\ Len(data["s1"]) = 3
    /\ data["s1"][1] = call.before["s1"][2]

\* the lines hold no line that starts with 'data:{' or 'data: {'
NoDataLine(lines) == \A i \in 1..Len(lines) : ~IsDataLine(lines[i])

\* the chat step sent its request with stream=True and was handed the lines
StreamHanded ==
    /\ ChatStep
    /\ call'.stream
    /\ Len(requests') = Len(requests) + 1
    /\ call'.response.status = "ok"

\* C13: when the stream handed to a chat holds no data line (or no line at
\* all), the chat raises the AssertionError of extract_response_generator, no
\* record and no generator is handed out, and every history is a tail of what
\* it was: nothing is appended.
C13_NoDataLineFails ==
    [][ (StreamHanded /\ NoDataLine(call'.response.lines)) =>
            /\ chat_res' = Raise("AssertionError")
            /\ UNCHANGED gen_vars
            /\ \A k \in DOMAIN data' :
                   \E n \in 0..Len(HistoryOf(data, k)) :
                       HistoryAfter(k) = Newest(HistoryOf(data, k), n) ]_vars

\* a chat on "s1" was handed a stream of one line that is no data line, and
\* "s1" still holds a record
C13_Witness ==
    /\ call.op = "chat" /\ call.stream /\ call.index = Some("s1")
    /\ call.response.status = "ok"
    /\ call.response.lines = <<OtherLine>>
    /\ chat_res = Raise("AssertionError")
    /\ Len(data["s1"]) >= 1

\* the last call was a non-stream chat that returned the record
\* extract_response_record built
RecordReturned == call.op = "chat" /\ ~call.stream /\ chat_res.kind = "return"

\* no text, or the empty text
EmptyOrNone(o) == o = None \/ o = Some("")

\* C23: in the record extract_response_record builds, a null or empty reply
\* text gives content None, absent usage gives token None, an absent or empty
\* citation list gives web None, an empty site or icon of a citation is None,
\* and a null or empty thinking text gives think None.
C23_EmptyIsNone ==
    RecordReturned =>
        LET response_json == call.response.body
            record == chat_res.value
        IN  /\ EmptyOrNone(response_json.content) => record.content = None
            /\ response_json.usage = None => record.token = None
            /\ response_json.search = <<>> => record.web = None
            /\ \A i \in 1..Len(record.web) :
                   record.web[i].site # Some("") /\ record.web[i].icon # Some("")
            /\ EmptyOrNone(response_json.reasoning) => record.think = None

\* the chat step sent its request, and the request or the extraction of the
\* response raised
RequestOrExtractionRaised ==
    /\ ChatStep
    /\ Len(requests') = Len(requests) + 1
    /\ chat_res'.kind = "raise"
    /\ chat_res'.error \in {"HTTPError", "AssertionError", "KeyError"}

\* C29: a chat with an index whose request or response extraction raises
\* leaves under that index a tail of the history it found (what the trimming
\* before the request kept) with no record appended, and changes the history
\* of no other key.
C29_FailureAppendsNothing ==
    [][ (RequestOrExtractionRaised /\ call'.index # None) =>
            LET k == call'.index[1]
                before == HistoryOf(data, k)
            IN  /\ DOMAIN data' = DOMAIN data \cup {k}
                /\ \A j \in DOMAIN data \ {k} : HistoryAfter(j) = HistoryOf(data, j)
                /\ \E n \in 0..Len(before) :
                       HistoryAfter(k) = SubSeq(before, Len(before) - n + 1, Len(before))
        ]_vars

\* a chat on "s1" whose request was refused by the vendor, after the trimming
\* dropped the older of the two records it found
C29_Witness ==
    /\ call.op = "chat" /\ call.index = Some("s1")
    /\ Len(requests) = 1
    /\ chat_res.kind = "raise" /\ chat_res.error = "AssertionError"
    /\ ~call.stream
    /\ "s1" \in DOMAIN call.before
    /\ Len(call.before["s1"]) = 2
    /\ data["s1"] = <<call.before["s1"][2]>>

\* C9: the record a non-stream chat returns, which is the one
\* extract_response_record built, has a len of None exactly when its content
\* is None, and otherwise a len that is the number of characters of content.
C9_LenIsContentLength ==
    (call.op = "chat" /\ ~call.stream /\ chat_res.kind = "return") =>
        LET record == chat_res.value
        IN  /\ (record.len = None) <=> (record.content = None)
            /\ record.content # None =>
                   record.len = Some(Len(record.content[1]))

C9_Witness ==
    /\ call.op = "chat" /\ ~call.stream
    /\ chat_res.kind = "return"
    /\ chat_res.value.content = Some("Hi there")
    /\ chat_res.value.len = Some(8)

\* C10: a chat with think=True and stream=False raises ValueError, and leaves
\* the histories, the requests sent and the request-record buffer as they were.
C10_ThinkNeedsStream ==
    [][ (ChatStep /\ call'.think /\ ~call'.stream) =>
            /\ chat_res' = Raise("ValueError")
            /\ UNCHANGED <<data, requests, db_data, db_rows>> ]_vars

\* such a call on "s1", whose history the instance's limits would trim
C10_Witness ==
    /\ call.op = "chat" /\ call.think /\ ~call.stream
    /\ call.text = "Hello" /\ call.index = Some("s1")
    /\ chat_res = Raise("ValueError")
    /\ history_max_time = Some(15)
    /\ "s1" \in DOMAIN data /\ Len(data["s1"]) = 2
    /\ requests = <<>>

-----------------------------------------------------------------------------
(* Properties of request (SpecRequest) *)

\* the content types that announce JSON
JsonTypes == {"application/json", "application/json; charset=utf-8"}

\* C11: for an answer the transport delivered to request(json, stream=False),
\* the call returns the decoded body exactly when the content type is JSON
\* and the body has no 'code' key; a JSON body with a 'code' key raises
\* AssertionError carrying that body, and another content type raises
\* AssertionError carrying the content type.  (An answer the transport
\* rejected never reaches these checks and is never returned.)
C11_VendorErrors ==
    (call.op = "request" /\ ~call.stream) =>
        LET response == call.response
            is_json == response.content_type \in JsonTypes
        IN  /\ chat_res.kind = "return" => response.status = "ok"
            /\ response.status = "ok" =>
                   /\ (is_json /\ ~response.code) =>
                          chat_res = Return(response.body)
                   /\ (is_json /\ response.code) =>
                          chat_res = ThrowJson("AssertionError",
                                               [code |-> TRUE,
                                                body |-> response.body])
                   /\ ~is_json =>
                          chat_res = ThrowType("AssertionError",
                                               response.content_type)

\* a JSON answer with a charset and a 'code' key, refused with its payload
C11_Witness ==
    /\ call.op = "request" /\ ~call.stream
    /\ call.response.status = "ok"
    /\ call.response.content_type = "application/json; charset=utf-8"
    /\ call.response.code
    /\ chat_res.kind = "raise"
    /\ "response_json" \in DOMAIN chat_res

-----------------------------------------------------------------------------
(* Properties of the streaming generators (SpecStream) *)

\* the line extract_response_generator built the reply record from
FirstDataLine == response_iter[NextDataLine(response_iter, 0)]

\* the stream's first data line carries thinking text
FirstThinks == stage = "extracted" /\ Truthy(FirstDataLine.reasoning)

\* a data line after the first one was consumed that has an 'output' and
\* carries no thinking text
ThinkSignaled ==
    \E i \in (NextDataLine(response_iter, 0) + 1)..it_pos :
        /\ IsDataLine(response_iter[i])
        /\ response_iter[i].output
        /\ ~Truthy(response_iter[i].reasoning)

\* C1: on a stream whose first data line carries thinking text, no next() on
\* the text generator returns text before the think generator has consumed a
\* data line without thinking text; the first next() on the text generator
\* raises the ordering error (AssertionError) when made before that, and
\* yields the record's reply text when made after it.
C1_OrderingLaw ==
    [][ (FirstThinks /\ NextText) =>
            /\ ~ThinkSignaled => gen_res'["text"].kind = "raise"
            /\ gen_state["text"] = "created" =>
                   IF ThinkSignaled
                   THEN gen_res'["text"] =
                            Yield(OrEmpty(chat_record_reply[1].content)[1])
                   ELSE gen_res'["text"] = Raise("AssertionError") ]_vars

C1_Witness ==
    /\ FirstThinks
    /\ ThinkSignaled
    /\ gen_res["think"] = Raise("StopIteration")
    /\ gen_res["text"].kind = "yield"

\* every data line of the stream has an 'output' whose content is a string
StringContents ==
    \A i \in 1..Len(response_iter) :
        IsDataLine(response_iter[i]) =>
            response_iter[i].output /\ response_iter[i].content # None

\* C2: whenever the text generator has run to its end, the reply record's
\* content is a string and its len field is the length of that string
\* (stated for the streams whose data lines all carry a string content).
C2_ContentLenAtExhaustion ==
    (stage = "extracted" /\ gen_state["text"] = "returned" /\ StringContents) =>
        /\ chat_record_reply[1].content # None
        /\ chat_record_reply[1].len = StrLen(chat_record_reply[1].content)

\* C3 as stated: whenever the text generator has run to its end, the
\* fragments it yielded, concatenated in order, are the record's content
\* (stated for the streams whose data lines all carry a string content).
C3_ConcatIsContent ==
    (stage = "extracted" /\ gen_state["text"] = "returned" /\ StringContents) =>
        chat_record_reply[1].content = Some(Join(yielded["text"]))

\* C3 as amended: the same, for the runs in which the think generator did not
\* take a line's reply text after the text generator's first next().
C3_ConcatIsContentInOrder ==
    (stage = "extracted" /\ gen_state["text"] = "returned" /\ ~overtaken) =>
        chat_record_reply[1].content = Some(Join(yielded["text"]))

C3_Witness ==
    /\ stage = "extracted"
    /\ gen_state["text"] = "returned"
    /\ ~overtaken
    /\ gen_state["think"] = "returned"
    /\ Len(yielded["think"]) >= 2
    /\ Len(yielded["text"]) >= 2
    /\ \A i \in 1..Len(yielded["text"]) : yielded["text"][i] # ""

\* the consumed lines that carry a non-empty citation list
CitingLines == {i \in 1..it_pos : /\ IsDataLine(response_iter[i])
                                  /\ response_iter[i].output
                                  /\ response_iter[i].search # <<>>}

Min(S) == CHOOSE x \in S : \A y \in S : x <= y

\* C6: the record's web field is the citation list of the first consumed data
\* line that carries a non-empty one, and None while no consumed line does.
C6_WebFirstWins ==
    stage = "extracted" =>
        chat_record_reply[1].web =
            IF CitingLines = {} THEN None
            ELSE extract_response_web(response_iter[Min(CitingLines)])

C6_Witness ==
    /\ stage = "extracted"
    /\ \E i, j \in CitingLines :
           /\ i < j
           /\ response_iter[i].search # response_iter[j].search
           /\ NextDataLine(response_iter, 0) < i

\* the line the suspended think generator reads on its next resumption: the
\* next data line of the iterator (0 when the iterator holds none)
NextData == NextDataLine(response_iter, it_pos)

\* a next() on the think generator that resumes it inside the loop
ThinkResumed ==
    /\ stage = "extracted"
    /\ gen_state["think"] = "suspended"
    /\ NextThink

ReplyTexts(lines) ==
    LET kept == SelectSeq(lines, LAMBDA l : /\ IsDataLine(l)
                                            /\ extract_response_text(l) # None)
    IN  [i \in 1..Len(kept) |-> extract_response_text(kept[i])[1]]

\* the caller drained the think generator and then the text generator
DrainedThinkThenText ==
    /\ stage = "extracted"
    /\ think_first
    /\ gen_state["think"] = "returned"
    /\ gen_state["text"] = "returned"

\* C25: once the caller has drained the think generator and then the text
\* generator, the record's content is the concatenation, in stream order, of
\* the reply-text fragments of all data lines of the stream.
C25_NoTextLost ==
    DrainedThinkThenText =>
        chat_record_reply[1].content = Some(Join(ReplyTexts(response_iter)))

\* C26: when the think generator has ended with StopIteration, the first
\* next() on the text generator does not raise the ordering error.
C26_TextAfterThink ==
    [][ (/\ stage = "extracted"
         /\ gen_state["think"] = "returned"
         /\ gen_state["text"] = "created"
         /\ NextText) => gen_res'["text"] # Raise("AssertionError") ]_vars

\* the last chat call was made with stream=False and returned its record
NonStreamSucceeded ==
    call.op = "chat" /\ ~call.stream /\ chat_res.kind = "return"

\* C27: with a database configured, the request-record table holds at most
\* one row per chat call, whatever the stream and the order in which the
\* generators are pulled, and exactly one row once a call with stream=False
\* has returned.
C27_OneRowPerCall ==
    database =>
        /\ Len(db_rows) <= chats
        /\ (NonStreamSucceeded /\ chats = 1) => Len(db_rows) = 1

\* the keys chat writes to the request record before the reply is extracted
CallKeys == {"messages", "request_time", "response_time"}

\* C28: every inserted request-record row that holds a reply also holds the
\* 'messages', 'request_time' and 'response_time' of a chat call, the
\* messages being those of a request that was sent.
C28_RowPairsCall ==
    \A i \in 1..Len(db_rows) :
        "reply" \in DOMAIN db_rows[i] =>
            /\ CallKeys \subseteq DOMAIN db_rows[i]
            /\ \E j \in 1..Len(requests) :
                   db_rows[i].messages = requests[j].messages

\* ---------------------------------------------------------------------------
\* Properties of APIBaiduChat (SpecBaiduChat)
\* ---------------------------------------------------------------------------

\* the last step was a call of APIBaiduChat.chat
BaiduChatDone == call.op = "baidu_chat"

\* the answer of the chat endpoint to the i-th request of the last chat call
AnswerTo(i) == call.answers[i]

\* C12: a chat call sends at most two requests to the chat endpoint; a second
\* request follows only the answer 336104 and carries no 'system'; if the
\* second request is answered by an error the call raises; an error other
\* than 336104 ends the call, which raises it.
C12_OneRetryOnly ==
    BaiduChatDone =>
        /\ Len(bd_requests) <= 2
        /\ Len(bd_requests) = 2 =>
              /\ AnswerTo(1) = ChatError(SystemUnsupported)
              /\ bd_requests[2].system = None
              /\ AnswerTo(2).kind = "error" => bd_res = Raise("AssertionError")
        /\ \A i \in 1..Len(bd_requests) :
              (AnswerTo(i).kind = "error" /\ AnswerTo(i).error_code # SystemUnsupported)
                  => (i = Len(bd_requests) /\ bd_res = Raise("AssertionError"))

\* the last step was a call of APIBaiduChat.history_messages that returned
HistoryMessagesReturned == call.op = "history_messages" /\ bd_res.kind = "return"

\* the records stored under the key of the last history_messages call
AskedRecords ==
    IF call.key \in DOMAIN bd_chat_records THEN bd_chat_records[call.key] ELSE <<>>

\* the words of records i..Len(records)
RECURSIVE WordsFrom(_, _)
WordsFrom(records, i) ==
    IF i > Len(records) THEN 0
    ELSE Len(records[i].send) + Len(records[i].receive) + WordsFrom(records, i + 1)

\* record i is no older than recent_seconds, and the records from i to the
\* newest fit max_word together with the character
RecentAndFits(i) ==
    /\ clock - AskedRecords[i].time <= call.recent_seconds * SecondMs
    /\ WordsFrom(AskedRecords, i) + Len(bd_character[1]) <= call.max_word

\* the messages contain the pair of the record
HasPair(messages, record) ==
    \E j \in 1..(Len(messages) - 1) :
        <<messages[j], messages[j + 1]>> = MessagePair(record)

\* C18: history_messages returns the pair of every record that is within
\* recent_seconds and, counting words from the newest record backward, within
\* max_word, whatever older records are stored.
C18_RecentRecordsIncluded ==
    (HistoryMessagesReturned /\ bd_character # None) =>
        \A i \in 1..Len(AskedRecords) :
            RecentAndFits(i) => HasPair(bd_res.value, AskedRecords[i])

\* ---------------------------------------------------------------------------
\* Properties of the history window (SpecHistory)
\* ---------------------------------------------------------------------------

\* the last step was a get_chat_records_history call that returned
GetReturned == call.op = "get_chat_records_history" /\ chat_res.kind = "return"

\* the limits the call applied: its arguments, else the instance's
AppliedMaxChar ==
    IF call.history_max_char # None THEN call.history_max_char ELSE history_max_char

AppliedMaxTime ==
    IF call.history_max_time # None THEN call.history_max_time ELSE history_max_time

\* the characters of records i..Len(records)
RECURSIVE CharsFrom(_, _)
CharsFrom(records, i) ==
    IF i > Len(records) THEN 0
    ELSE records[i].len[1] + CharsFrom(records, i + 1)

\* record i of the history the call found is beyond a limit: the characters
\* from it to the newest exceed the maximum, or its age exceeds the maximum
BeyondLimit(i) ==
    \/ AppliedMaxChar # None /\ CharsFrom(call.before, i) > AppliedMaxChar[1]
    \/ AppliedMaxTime # None
           /\ call.now - call.before[i].time > AppliedMaxTime[1] * SecondMs

\* the cut: the first record beyond a limit on the walk from the newest
\* backward, 0 if there is none
CutIndex ==
    LET beyond == {i \in 1..Len(call.before) : BeyondLimit(i)}
    IN  IF beyond = {} THEN 0 ELSE CHOOSE i \in beyond : \A j \in beyond : j <= i

\* the records newer than the cut
Window == SubSeq(call.before, CutIndex + 1, Len(call.before))

\* C16: get_chat_records_history returns exactly the records newer than the
\* cut; with delete=True the stored history becomes the returned one, with
\* delete=False it stays as it was (and what is returned does not depend on
\* delete).
C16_WindowRule ==
    GetReturned =>
        /\ chat_res.value = Window
        /\ data[call.index] = IF call.delete THEN Window ELSE call.before

\* a call with delete=False under the instance's limits returned some but not
\* all of the stored records
C16_Witness ==
    /\ GetReturned
    /\ ~call.delete
    /\ call.history_max_char = None /\ call.history_max_time = None
    /\ Len(chat_res.value) >= 1
    /\ Len(chat_res.value) < Len(data[call.index])

\* ---------------------------------------------------------------------------
\* Properties of the stored histories (SpecAppend)
\* ---------------------------------------------------------------------------

\* C14: the stored records of every index are in non-decreasing timestamp
\* order, after any sequence of append_chat_records_history and chat calls.
C14_ChronologicalOrder == \A k \in DOMAIN data : Sorted(data[k])

\* the history of "s1" before the last call
BeforeCall ==
    IF call.op = "get_chat_records_history" THEN call.before
    ELSE IF "s1" \in DOMAIN call.before THEN call.before["s1"] ELSE <<>>

\* the history of "s1" now
AfterCall == HistoryOf(data, "s1")

\* the last call is one that may remove records
RemovingCall ==
    \/ call.op = "get_chat_records_history" /\ call.delete
    \/ call.op = "append_chat_records_history"
    \/ call.op = "chat"

\* the number of records the last call added before it trimmed
AddedByCall ==
    IF call.op = "chat" THEN 2
    ELSE IF call.op = "append_chat_records_history"
    THEN IF call.records.type = "list" THEN Len(call.records.items) ELSE 1
    ELSE 0

\* the records of `part` occur in `whole`, in the same order
RECURSIVE OccursInOrder(_, _)
OccursInOrder(part, whole) ==
    IF part = <<>> THEN TRUE
    ELSE IF whole = <<>> THEN FALSE
    ELSE IF Head(part) = Head(whole) THEN OccursInOrder(Tail(part), Tail(whole))
    ELSE OccursInOrder(part, Tail(whole))

\* C15: after a call that may remove records, the records left of the list
\* before the call are a suffix of that list, in the same order and with the
\* same contents; every other stored record was added by the call.
C15_OnlyPrefixRemoved ==
    RemovingCall =>
        \E n \in 0..Len(BeforeCall) :
            /\ OccursInOrder(Newest(BeforeCall, n), AfterCall)
            /\ Len(AfterCall) <= n + AddedByCall

\* the last call was an append of a list of strings that returned
ListOfStrAppended ==
    /\ call.op = "append_chat_records_history"
    /\ call.records.type = "list"
    /\ \A i \in 1..Len(call.records.items) : call.records.items[i].type = "str"
    /\ chat_res.kind = "return"

\* the record the claim describes for the string s appended at `now`
UserRecord(s, now) ==
    [time |-> now, role |-> "user", content |-> Some(s), len |-> Some(Len(s)),
     token |-> None, web |-> None, think |-> None]

\* C20: an append of a list of n strings under no limit adds n records, one
\* per string, each with role 'user', the string as content and its number
\* of characters as len.
C20_OneRecordPerString ==
    (ListOfStrAppended /\ call.history_max_char = None /\ history_max_time = None) =>
        /\ Len(AfterCall) = Len(BeforeCall) + Len(call.records.items)
        /\ \A i \in 1..Len(call.records.items) :
               \E j \in 1..Len(AfterCall) :
                   AfterCall[j] = UserRecord(call.records.items[i].value, call.now)

\* ---------------------------------------------------------------------------
\* Properties of to_url (SpecPoll, SpecPollLive)
\* ---------------------------------------------------------------------------

\* a to_url call has reached wait()
Polling == bd_task.pc \in {"query", "sleep"}

\* the call is over
TaskDone == bd_task.pc = "done"

\* the status queries of the call, in order
Polls == bd_task.polls

LastPoll == Polls[Len(Polls)]

\* each query begins exactly one interval after the previous one ended
OneQueryAtATime ==
    \A i \in 2..Len(Polls) : Polls[i].begin = Polls[i - 1].end + PollIntervalMs

\* every query but the last found the task running
OnlyRunningBefore ==
    \A i \in 1..(Len(Polls) - 1) : Polls[i].task_status = RunningOf(bd_task.kind)

\* a URL is returned only by a call whose last query found success
UrlOnlyAfterSuccess ==
    (call.op = "to_url" /\ bd_res.kind = "return") =>
        /\ TaskDone
        /\ Len(Polls) >= 1
        /\ LastPoll.task_status = SuccessOf(bd_task.kind)
        /\ bd_res.value = TaskUrl

\* a status other than running and success ends the call with a failure
FailsOnOtherStatus ==
    (Len(Polls) >= 1 /\ LastPoll.task_status \notin
                          {RunningOf(bd_task.kind), SuccessOf(bd_task.kind)})
        => (TaskDone /\ bd_res = Raise("AssertionError"))

\* a task still running after the timeout ends the call with a failure, and
\* no query begins after the timeout
FailsAtTimeout ==
    /\ (Len(Polls) >= 1 /\ LastPoll.task_status = RunningOf(bd_task.kind)
            /\ LastPoll.end - bd_task.start > PollTimeoutMs)
          => (TaskDone /\ bd_res = Raise("TimeoutError"))
    /\ \A i \in 1..Len(Polls) :
          Polls[i].begin - bd_task.start <= PollTimeoutMs + PollIntervalMs

TokenReadDone == call.op = "token"

\* the time between the previous fetch and the last read exceeds
\* token_valid_seconds
ValidityElapsed ==
    call.now - call.token_time[1] > bd_token_valid_seconds * SecondMs

\* C19: a read of the token fetches a new token exactly when none was fetched
\* before or more than token_valid_seconds have elapsed since the last fetch,
\* for every elapsed time.
C19_CachedForValidSeconds ==
    TokenReadDone =>
        (call.fetches = 1 <=> (call.token_time = None \/ ValidityElapsed))

\* the step is a read of APIBaidu.token
TokenStep == call'.op = "token" /\ clock' = clock

\* the last access of the token ended in the failure of get_token
FetchFailed ==
    /\ TokenReadDone
    /\ call.fetches = 1
    /\ bd_res = Raise("AssertionError")

\* C30: the access of the token that follows an access in which get_token
\* raised performs a new fetch.
C30_FailedFetchRefetched ==
    [][ (FetchFailed /\ TokenStep) => call'.fetches = 1 ]_vars

====
